---- MODULE Spec2Model ----
(***************************************************************************)
(* A model of the Visit Cesenatico chat application (React Router route    *)
(* modules app/routes/home.tsx in its successive versions):                *)
(*   - the tool-augmented version   (src/unnamed/part_001, lines 1-919),   *)
(*   - the today-events version     (src/unnamed/part_001, lines 921-1224),*)
(*   - the plain version            (src/app/routes/home.tsx, lines 1-192).*)
(*                                                                         *)
(* JavaScript values are tagged records.  A string that holds an ISO date  *)
(* YYYY-MM-DD is kept as its day number (the order of such strings is the  *)
(* order of the days); any other string is kept as its text.  Description  *)
(* texts, whose characters matter (substring, tag stripping), are          *)
(* sequences of one-character strings.                                     *)
(***************************************************************************)
EXTENDS Integers, Sequences, FiniteSets, TLC

VARIABLES
    variant,      \* which version of the route module serves the request
    request,      \* the form field "messages" of the POST request
    pc,           \* position of the server action
    modelInputs,  \* every request sent to the model provider, in order
    context,      \* the message list generateText holds for the next model call
    steps,        \* result.steps of generateText
    current,      \* the model reply of the step in progress
    pending,      \* indices of calls whose CMS fetch has not settled
    outputs,      \* tool outputs of the step in progress (index -> output)
    cms,          \* every HTTP request sent to the CMS, in order
    exchanges,    \* every settled CMS client call: function, response, outcome
    response,     \* the HTTP response of the action
    thrown,       \* the error raised in the action's body ("" if none)
    serverLog,    \* what the server wrote with console.error
    chat,         \* the assistant message the Chat component shows for the turn
    probe,        \* inputs and results of the pure functions under study
    process,      \* the server process: the day its module was loaded, the clock
    browser       \* the state of the Chat component in the browser

vars == <<variant, request, pc, modelInputs, context, steps, current, pending,
          outputs, cms, exchanges, response, thrown, serverLog, chat, probe,
          process, browser>>

turnVars == <<variant, request, pc, modelInputs, context, steps, current, pending,
              outputs, cms, exchanges, response, thrown, serverLog, chat>>

-----------------------------------------------------------------------------
(* Bounds of the exploration.                                              *)

\* Most tool calls the model stub puts in one response.
MaxCalls == 2
\* Day numbers used for ISO dates: 1..MaxDay.
MaxDay == 4
\* Lengths 0..MaxShort are the "naturally short" descriptions tried.
MaxShort == 3
\* Lengths budget-Slack .. budget+Slack are tried around each budget.
Slack == 2
\* Most requests one server process serves.
MaxServed == 3
\* Most messages the user submits in one conversation.
MaxTurns == 2
\* Most chunks the browser reads from one streamed response.
MaxChunks == 2

-----------------------------------------------------------------------------
(* JavaScript values.                                                      *)

Undefined == [t |-> "undefined"]
IsoDate(d) == [t |-> "string", iso |-> TRUE, day |-> d, s |-> ""]
Text(s) == [t |-> "string", iso |-> FALSE, day |-> 0, s |-> s]
Num(n) == [t |-> "number", n |-> n]
Bool(b) == [t |-> "boolean", b |-> b]

\* if (v) ...
Truthy(v) ==
    CASE v.t = "undefined" -> FALSE
      [] v.t = "string" -> v.iso \/ v.s # ""
      [] v.t = "number" -> v.n # 0
      [] v.t = "boolean" -> v.b

\* String(v) for the values the query builders convert.
String(v) ==
    CASE v.t = "number" -> Text(ToString(v.n))
      [] v.t = "boolean" -> Text(IF v.b THEN "true" ELSE "false")
      [] v.t = "string" -> v
      [] v.t = "undefined" -> Text("undefined")

\* a || b
OrElse(a, b) == IF Truthy(a) THEN a ELSE b

Min(S) == CHOOSE m \in S : \A k \in S : m <= k
Max(S) == CHOOSE m \in S : \A k \in S : m >= k

-----------------------------------------------------------------------------
(* Description texts: sequences of characters.                             *)

Chars(n, c) == [i \in 1..n |-> c]
Ellipsis == <<".", ".", ".">>
UndefinedText == <<"u", "n", "d", "e", "f", "i", "n", "e", "d">>

\* s.substring(0, n)
substring(s, n) == SubSeq(s, 1, IF n < Len(s) THEN n ELSE Len(s))

\* Character i of s lies in a match of /<[^>]*>/g: a "<" stands at or before i
\* with no ">" between it and i, and a ">" stands at or after i.
InTag(s, i) ==
    LET closes == {k \in 1..(i - 1) : s[k] = ">"}
        from == IF closes = {} THEN 1 ELSE Max(closes) + 1
    IN  /\ \E p \in from..i : s[p] = "<"
        /\ \E q \in i..Len(s) : s[q] = ">"

RECURSIVE Keep(_, _, _)
\* The characters of s[lo..hi] outside every tag, in order.
Keep(s, lo, hi) ==
    IF lo > hi THEN <<>>
    ELSE IF lo = hi THEN (IF InTag(s, lo) THEN <<>> ELSE <<s[lo]>>)
    ELSE LET mid == (lo + hi) \div 2
         IN  Keep(s, lo, mid) \o Keep(s, mid + 1, hi)

\* s.replace(/<[^>]*>/g, '')
StripTags(s) == Keep(s, 1, Len(s))

\* s.trim()
trim(s) ==
    LET ns == {i \in 1..Len(s) : s[i] # " "}
    IN  IF ns = {} THEN <<>> ELSE SubSeq(s, Min(ns), Max(ns))

-----------------------------------------------------------------------------
(* Result shaping.                                                         *)

\* The character budget of a description in a search tool's result.
ToolBudget == 300
\* The character budget of a description in formatEventsForContext.
ContextBudget == 200

\* A description field of a CMS record: absent, or a text.
NoDesc == [t |-> "undefined"]
Desc(chars) == [t |-> "text", chars |-> chars]

\* e.descrizione?.substring(0, 300) + "..."  (every search tool).  An absent
\* descrizione makes the optional chain undefined, which "+" turns into text.
ShapeDescrizione(d) ==
    IF d.t = "undefined" THEN UndefinedText \o Ellipsis
    ELSE substring(d.chars, ToolBudget) \o Ellipsis

\* formatEventsForContext: the description line of one event (nothing when
\* the description is absent or empty: if (event.descrizione) is false).
ContextDescrizione(d) ==
    IF d.t = "undefined" THEN <<>>
    ELSE IF d.chars = <<>> THEN <<>>
    ELSE LET plainDesc == substring(trim(StripTags(d.chars)), ContextBudget)
         IN  plainDesc \o (IF Len(plainDesc) >= ContextBudget THEN Ellipsis ELSE <<>>)

-----------------------------------------------------------------------------
(* The CMS client.                                                         *)

\* What fetch() yields: an HTTP response, or a rejection (DNS, connection).
OkResponse(data, total) ==
    [kind |-> "http", status |-> 200, data |-> data, total |-> total]
HttpError(status) ==
    [kind |-> "http", status |-> status, data |-> <<>>, total |-> 0]
NetworkError == [kind |-> "network", status |-> 0, data |-> <<>>, total |-> 0]

\* response.ok
ok(resp) == resp.kind = "http" /\ resp.status \in 200..299
Failed(resp) == ~ok(resp)

\* Outcomes of a call: a returned value or a thrown error.
Return(v) == [kind |-> "return", value |-> v]
Throw(msg) == [kind |-> "throw", error |-> msg]

\* strapiQuery with an error text that leaves the status out.
strapiQueryNoStatus(resp) ==
    IF resp.kind = "network" THEN Throw("fetch failed")
    ELSE IF ~ok(resp) THEN Throw("Strapi API error")
    ELSE Return([data |-> resp.data, total |-> resp.total])

\* strapiQuery, given what its one fetch yields.  A rejected fetch rejects the
\* await; a non-2xx response throws; otherwise the parsed JSON is returned.
strapiQuery(resp) ==
    IF resp.kind = "network" THEN Throw("fetch failed")
    ELSE IF ~ok(resp) THEN Throw("Strapi API error: " \o ToString(resp.status))
    ELSE Return([data |-> resp.data, total |-> resp.total])

\* fetchTodayEvents, given what its one fetch yields: every failure is caught
\* and answered with the empty list.
fetchTodayEvents(resp) ==
    IF resp.kind = "network" THEN Return(<<>>)
    ELSE IF ~ok(resp) THEN Return(<<>>)
    ELSE Return(resp.data)

\* An HTTP request to the CMS.
CmsRequest(endpoint, params) ==
    [method |-> "GET", endpoint |-> endpoint, params |-> params, bearer |-> TRUE]

-----------------------------------------------------------------------------
(* The tool cerca_eventi.                                                  *)

\* The argument object of a cerca_eventi call.
EventiInput(dataInizio, dataFine, searchText, gratuito, limit) ==
    [dataInizio |-> dataInizio, dataFine |-> dataFine, searchText |-> searchText,
     gratuito |-> gratuito, limit |-> limit]
EmptyInput == EventiInput(Undefined, Undefined, Undefined, Undefined, Undefined)

OptionalOf(v, type) == v.t = "undefined" \/ v.t = type

\* inputSchema of cerca_eventi: z.string().optional() for the two dates and the
\* text, z.boolean().optional(), z.number().optional().default(10).
EventiSchemaAccepts(input) ==
    /\ OptionalOf(input.dataInizio, "string")
    /\ OptionalOf(input.dataFine, "string")
    /\ OptionalOf(input.searchText, "string")
    /\ OptionalOf(input.gratuito, "boolean")
    /\ OptionalOf(input.limit, "number")

\* The default value of limit.
DefaultLimit == 10

\* The parsed arguments: .default(10) fills an absent limit.
EventiSchemaParse(input) ==
    [input EXCEPT !.limit = IF input.limit.t = "undefined" THEN Num(DefaultLimit) ELSE @]

EventiBaseParams(a) ==
    ("populate[categoria_evento]" :> Text("true")) @@
    ("populate[cover]" :> Text("true")) @@
    ("pagination[pageSize]" :> String(OrElse(a.limit, Num(DefaultLimit)))) @@
    ("sort" :> Text("dataInizio:asc"))

\* if (x) params[key] = value
ParamIf(cond, key, value) == IF cond THEN (key :> value) ELSE <<>>

\* cerca_eventi's parameters with the gratuito test written "if (gratuito)".
EventiParamsGratuitoTruthy(a) ==
    ParamIf(Truthy(a.dataInizio), "filters[dataInizio][$gte]", a.dataInizio) @@
    ParamIf(Truthy(a.dataFine), "filters[dataFine][$lte]", a.dataFine) @@
    ParamIf(Truthy(a.searchText), "filters[$or][0][titolo][$containsi]", a.searchText) @@
    ParamIf(Truthy(a.searchText), "filters[$or][1][descrizione][$containsi]", a.searchText) @@
    ParamIf(Truthy(a.gratuito), "filters[gratuito][$eq]", String(a.gratuito)) @@
    EventiBaseParams(a)

\* The query parameters cerca_eventi.execute builds from its arguments.
EventiParams(a) ==
    ParamIf(Truthy(a.dataInizio), "filters[dataInizio][$gte]", a.dataInizio) @@
    ParamIf(Truthy(a.dataFine), "filters[dataFine][$lte]", a.dataFine) @@
    ParamIf(Truthy(a.searchText), "filters[$or][0][titolo][$containsi]", a.searchText) @@
    ParamIf(Truthy(a.searchText), "filters[$or][1][descrizione][$containsi]", a.searchText) @@
    ParamIf(a.gratuito.t # "undefined", "filters[gratuito][$eq]", String(a.gratuito)) @@
    EventiBaseParams(a)

\* One shaped event of the result.
ShapeEvento(e) ==
    [id |-> e.id, titolo |-> e.titolo, descrizione |-> ShapeDescrizione(e.descrizione),
     dataInizio |-> e.dataInizio, dataFine |-> e.dataFine, gratuito |-> e.gratuito]

\* cerca_eventi.execute after its query: strapiQuery's error propagates,
\* otherwise the records are shaped and returned with the total.
EventiExecute(resp) ==
    LET result == strapiQuery(resp)
    IN  IF result.kind = "throw" THEN result
        ELSE Return([totale |-> result.value.total,
                     eventi |-> [i \in 1..Len(result.value.data) |->
                                    ShapeEvento(result.value.data[i])]])

-----------------------------------------------------------------------------
(* The other tools of the registry.                                        *)

SearchTools == {"cerca_eventi", "cerca_experiences", "cerca_punti_interesse",
                "cerca_strutture", "cerca_offerte"}
ToolNames == SearchTools \cup {"ottieni_categorie"}

\* An argument object with every key some tool's schema declares.
ToolInput(searchText, categoria, tipologia, gratuito, dataInizio, dataFine, limit, tipo) ==
    [searchText |-> searchText, categoria |-> categoria, tipologia |-> tipologia,
     gratuito |-> gratuito, dataInizio |-> dataInizio, dataFine |-> dataFine,
     limit |-> limit, tipo |-> tipo]

\* The keys of each tool's inputSchema.
SchemaKeys(tool) ==
    CASE tool = "cerca_eventi" -> {"dataInizio", "dataFine", "searchText", "gratuito", "limit"}
      [] tool = "cerca_experiences" ->
             {"searchText", "categoria", "tipologia", "gratuito", "limit"}
      [] tool = "cerca_punti_interesse" -> {"searchText", "categoria", "limit"}
      [] tool = "cerca_strutture" -> {"searchText", "categoria", "limit"}
      [] tool = "cerca_offerte" -> {"searchText", "dataInizio", "dataFine", "limit"}
      [] tool = "ottieni_categorie" -> {"tipo"}

\* The values of the enum of ottieni_categorie's tipo.
Tipi == {"eventi", "cosa-fare", "esperienze", "esplora", "strutture", "offerte"}

\* The zod type of a key: z.string(), z.boolean() or z.number().
KeyType(key) ==
    CASE key = "gratuito" -> "boolean"
      [] key = "limit" -> "number"
      [] OTHER -> "string"

\* inputSchema of a tool accepts the input: every key but tipo is optional,
\* tipo is required and one of the enum's values.
SchemaAccepts(tool, input) ==
    \A key \in SchemaKeys(tool) :
        IF key = "tipo"
        THEN input.tipo.t = "string" /\ ~input.tipo.iso /\ input.tipo.s \in Tipi
        ELSE OptionalOf(input[key], KeyType(key))

\* The parsed arguments: z.object drops the keys the schema does not declare
\* and .default(10) fills an absent limit.
SchemaParse(tool, input) ==
    [key \in DOMAIN input |->
        IF key \notin SchemaKeys(tool) THEN Undefined
        ELSE IF key = "limit" /\ input[key].t = "undefined" THEN Num(DefaultLimit)
        ELSE input[key]]

\* The searchText parameters with the filter on descrizione left out.
SearchTextParamsTitleOnly(a) ==
    ParamIf(Truthy(a.searchText), "filters[$or][0][titolo][$containsi]", a.searchText)

\* The two parameters every search tool emits for searchText.
SearchTextParams(a) ==
    ParamIf(Truthy(a.searchText), "filters[$or][0][titolo][$containsi]", a.searchText) @@
    ParamIf(Truthy(a.searchText), "filters[$or][1][descrizione][$containsi]", a.searchText)

\* The page size parameter with the caller's limit ignored.
PageSizeParamFixed(a) == "pagination[pageSize]" :> String(Num(DefaultLimit))

\* pagination[pageSize]: String(limit || 10).
PageSizeParam(a) == "pagination[pageSize]" :> String(OrElse(a.limit, Num(DefaultLimit)))

\* The query parameters cerca_experiences.execute builds.
ExperiencesParams(a) ==
    SearchTextParams(a) @@
    ParamIf(Truthy(a.categoria), "filters[categoria_cosafare][titolo][$containsi]",
            a.categoria) @@
    ParamIf(Truthy(a.tipologia), "filters[tipologia_experience][titolo][$containsi]",
            a.tipologia) @@
    ParamIf(a.gratuito.t # "undefined", "filters[gratuito][$eq]", String(a.gratuito)) @@
    ("populate[categoria_cosafare]" :> Text("true")) @@
    ("populate[tipologia_experience]" :> Text("true")) @@
    ("populate[cover]" :> Text("true")) @@
    ("filters[attiva][$eq]" :> Text("true")) @@
    PageSizeParam(a)

\* cerca_punti_interesse's parameters with the category matched by id.
PuntiInteresseParamsById(a) ==
    SearchTextParams(a) @@
    ParamIf(Truthy(a.categoria), "filters[categoria_esplora][id][$eq]", a.categoria) @@
    ("populate[categoria_esplora]" :> Text("true")) @@
    ("populate[cover]" :> Text("true")) @@
    PageSizeParam(a)

\* The query parameters cerca_punti_interesse.execute builds.
PuntiInteresseParams(a) ==
    SearchTextParams(a) @@
    ParamIf(Truthy(a.categoria), "filters[categoria_esplora][titolo][$containsi]",
            a.categoria) @@
    ("populate[categoria_esplora]" :> Text("true")) @@
    ("populate[cover]" :> Text("true")) @@
    PageSizeParam(a)

\* The query parameters cerca_strutture.execute builds.
StruttureParams(a) ==
    SearchTextParams(a) @@
    ParamIf(Truthy(a.categoria), "filters[categoria_struttura][titolo][$containsi]",
            a.categoria) @@
    ("populate[categoria_struttura]" :> Text("true")) @@
    ("populate[tipologia_struttura]" :> Text("true")) @@
    ("populate[cover]" :> Text("true")) @@
    ("filters[attiva][$eq]" :> Text("true")) @@
    PageSizeParam(a)

\* cerca_offerte's parameters with the date tests of cerca_eventi: offers
\* whose period lies inside the window.
OfferteParamsWithin(a) ==
    SearchTextParams(a) @@
    ParamIf(Truthy(a.dataInizio), "filters[disponibileInizio][$gte]", a.dataInizio) @@
    ParamIf(Truthy(a.dataFine), "filters[disponibileFine][$lte]", a.dataFine) @@
    ("populate[categoria_offerta]" :> Text("true")) @@
    ("populate[struttura]" :> Text("true")) @@
    ("populate[cover]" :> Text("true")) @@
    ("filters[attiva][$eq]" :> Text("true")) @@
    PageSizeParam(a)

\* The query parameters cerca_offerte.execute builds.
OfferteParams(a) ==
    SearchTextParams(a) @@
    ParamIf(Truthy(a.dataInizio), "filters[disponibileInizio][$lte]", a.dataInizio) @@
    ParamIf(Truthy(a.dataFine), "filters[disponibileFine][$gte]", a.dataFine) @@
    ("populate[categoria_offerta]" :> Text("true")) @@
    ("populate[struttura]" :> Text("true")) @@
    ("populate[cover]" :> Text("true")) @@
    ("filters[attiva][$eq]" :> Text("true")) @@
    PageSizeParam(a)

\* The endpoints with the experiences sent to the categories of cosa-fare.
endpointsShared ==
    ("eventi" :> "categorie-evento") @@ ("cosa-fare" :> "categorie-cosa-fare") @@
    ("esperienze" :> "categorie-cosa-fare") @@ ("esplora" :> "categorie-esplora") @@
    ("strutture" :> "categorie-struttura") @@ ("offerte" :> "categoria-offertas")

\* ottieni_categorie: the endpoint of each tipo.
endpoints ==
    ("eventi" :> "categorie-evento") @@ ("cosa-fare" :> "categorie-cosa-fare") @@
    ("esperienze" :> "tipologia-experiences") @@ ("esplora" :> "categorie-esplora") @@
    ("strutture" :> "categorie-struttura") @@ ("offerte" :> "categoria-offertas")

\* The endpoint a tool queries.
ToolEndpoint(tool, a) ==
    CASE tool = "cerca_eventi" -> "eventi"
      [] tool = "cerca_experiences" -> "experiences"
      [] tool = "cerca_punti_interesse" -> "pois"
      [] tool = "cerca_strutture" -> "strutturas"
      [] tool = "cerca_offerte" -> "offertas"
      [] tool = "ottieni_categorie" -> endpoints[a.tipo.s]

\* The query parameters a tool's execute hands to strapiQuery;
\* ottieni_categorie hands none.
ToolParams(tool, a) ==
    CASE tool = "cerca_eventi" -> EventiParams(a)
      [] tool = "cerca_experiences" -> ExperiencesParams(a)
      [] tool = "cerca_punti_interesse" -> PuntiInteresseParams(a)
      [] tool = "cerca_strutture" -> StruttureParams(a)
      [] tool = "cerca_offerte" -> OfferteParams(a)
      [] tool = "ottieni_categorie" -> <<>>

\* The request the one strapiQuery call of a tool's execute sends.
ToolRequest(tool, a) == CmsRequest(ToolEndpoint(tool, a), ToolParams(tool, a))

\* The key of the record list in a search tool's result.
ListKey(tool) ==
    CASE tool = "cerca_eventi" -> "eventi"
      [] tool = "cerca_experiences" -> "esperienze"
      [] tool = "cerca_punti_interesse" -> "puntiInteresse"
      [] tool = "cerca_strutture" -> "strutture"
      [] tool = "cerca_offerte" -> "offerte"

\* One shaped record of a search tool's result: the fields every tool's
\* shaping has (the others are copied from the record as they are).
ShapeRecord(r) ==
    [id |-> r.id, titolo |-> r.titolo, descrizione |-> ShapeDescrizione(r.descrizione)]

\* One category of ottieni_categorie's result.
ShapeCategoria(c) == [id |-> c.id, titolo |-> c.titolo, slug |-> c.slug]

\* A tool's execute after its query: strapiQuery's error propagates; a search
\* tool returns the total and the shaped records, ottieni_categorie the tipo
\* and the categories.
ToolExecute(tool, a, resp) ==
    LET result == strapiQuery(resp)
        data == result.value.data
    IN  IF result.kind = "throw" THEN result
        ELSE IF tool = "cerca_eventi" THEN EventiExecute(resp)
        ELSE IF tool = "ottieni_categorie"
        THEN Return(("tipo" :> a.tipo.s) @@
                    ("categorie" :> [i \in 1..Len(data) |-> ShapeCategoria(data[i])]))
        ELSE Return(("totale" :> result.value.total) @@
                    (ListKey(tool) :> [i \in 1..Len(data) |-> ShapeRecord(data[i])]))

-----------------------------------------------------------------------------
(* The environment of one turn: the browser's request, the model provider  *)
(* and the CMS.                                                            *)

Variants == {"tools", "today", "plain"}

UserMessage(text) == [role |-> "user", content |-> text]
History == <<UserMessage("Cosa posso fare oggi?")>>

\* The form field "messages": a JSON text JSON.parse accepts, or one it rejects.
Requests == {[parsable |-> TRUE, messages |-> History],
             [parsable |-> FALSE, messages |-> <<>>]}

\* Argument objects the model stub supplies to cerca_eventi: a one-day window,
\* a date that is a string but no ISO date, a date of the wrong type, nothing.
StubInputs ==
    {EventiInput(IsoDate(2), IsoDate(2), Undefined, Undefined, Undefined),
     EventiInput(Text("domani"), Undefined, Undefined, Undefined, Undefined),
     EventiInput(Num(20250701), Undefined, Undefined, Undefined, Undefined),
     EmptyInput}

ToolCall(toolName, input) == [toolName |-> toolName, input |-> input]
StubCalls == {ToolCall("cerca_eventi", in) : in \in StubInputs}

SeqsUpTo(S, n) == UNION {[1..k -> S] : k \in 0..n}

ModelReply(text, toolCalls) == [failed |-> FALSE, text |-> text, toolCalls |-> toolCalls, error |-> ""]
ModelFailure(error) == [failed |-> TRUE, text |-> "", toolCalls |-> <<>>, error |-> error]

\* Error texts of a failed model call, as the provider words them.
RawErrors == {"429 rate limit exceeded for key sk-live-1"}

\* What the provider may answer to the first model call of a turn, and to a
\* later one (later rounds draw from fewer replies to keep the search finite
\* when a turn has many rounds).
FirstReplies ==
    {ModelReply(t, c) : t \in {"", "Ecco gli eventi"}, c \in SeqsUpTo(StubCalls, MaxCalls)}
        \cup {ModelFailure(e) : e \in RawErrors}
LaterReplies ==
    {ModelReply("Ecco gli eventi", <<>>),
     ModelReply("", <<ToolCall("cerca_eventi", EmptyInput)>>)}
Replies(round) == IF round = 1 THEN FirstReplies ELSE LaterReplies

\* Records the CMS stub holds.
StubEvent ==
    [id |-> 1, titolo |-> "Sagra del pesce", descrizione |-> Desc(<<"<", "p", ">", "o", "k">>),
     dataInizio |-> 2, dataFine |-> 3, gratuito |-> TRUE]

\* What the CMS may answer to one request.
CmsResponses ==
    {OkResponse(<<>>, 0), OkResponse(<<StubEvent>>, 1), HttpError(500), NetworkError}

-----------------------------------------------------------------------------
(* generateText of the AI SDK, as the actions call it.                     *)

\* The number of steps after which generateText stops.  No call of the
\* repository passes stopWhen, so the SDK's default, stepCountIs(1), applies.
StopStepCount == 1

\* A stop condition that lets the loop run five steps longer.
isStopConditionMetLate(stepCount) == stepCount >= StopStepCount + 5

\* isStopConditionMet: stepCountIs(StopStepCount) on the steps so far.
isStopConditionMet(stepCount) == stepCount >= StopStepCount

\* A tool call whose input the tool's inputSchema rejects is not executed.
IsValidCall(call) == EventiSchemaAccepts(call.input)

\* The output of a call that was not executed: the validation error.
InvalidOutput(call) ==
    [type |-> "tool-error", toolName |-> call.toolName,
     error |-> "Invalid input for tool " \o call.toolName, value |-> <<>>]

\* The output of an executed call: execute's value, or the error it threw.
ToolOutput(call, outcome) ==
    IF outcome.kind = "throw"
    THEN [type |-> "tool-error", toolName |-> call.toolName,
          error |-> outcome.error, value |-> <<>>]
    ELSE [type |-> "tool-result", toolName |-> call.toolName,
          error |-> "", value |-> <<outcome.value>>]

\* The request cerca_eventi.execute sends for a validated call.
CallRequest(call) == CmsRequest("eventi", EventiParams(EventiSchemaParse(call.input)))

\* The requests the valid calls of a step send, in call order.
RECURSIVE DispatchRequests(_)
DispatchRequests(cs) ==
    IF cs = <<>> THEN <<>>
    ELSE (IF IsValidCall(Head(cs)) THEN <<CallRequest(Head(cs))>> ELSE <<>>)
             \o DispatchRequests(Tail(cs))

\* A step of result.steps.
Step(text, toolCalls, toolOutputs) ==
    [text |-> text, toolCalls |-> toolCalls, toolOutputs |-> toolOutputs]

\* The messages a finished step adds to the context of the next model call:
\* the assistant message with its tool calls, then the tool message with
\* every output.
StepMessages(step) ==
    <<[role |-> "assistant", content |-> step.text, toolCalls |-> step.toolCalls],
      [role |-> "tool", toolOutputs |-> step.toolOutputs]>>

ModelInput(system, messages) == [system |-> system, messages |-> messages]

-----------------------------------------------------------------------------
(* The action of each version.                                             *)

NoResponse == [status |-> 0, fields |-> {}, text |-> "", toolCalls |-> <<>>, error |-> ""]

\* The fixed fallback text of the tool version's catch block.
FallbackText == "Mi dispiace, si e' verificato un errore. Riprova."

\* args: (tc as any).args || {}.  A tool call of the SDK carries its
\* arguments in "input"; it has no field "args".
ReportedArgs(tc) == IF "args" \in DOMAIN tc THEN tc.args ELSE EmptyInput

RECURSIVE FlatToolCalls(_)
\* result.steps.flatMap(step => step.toolCalls?.map(...) || [])
FlatToolCalls(ss) ==
    IF ss = <<>> THEN <<>>
    ELSE [i \in 1..Len(Head(ss).toolCalls) |->
             [toolName |-> Head(ss).toolCalls[i].toolName,
              args |-> ReportedArgs(Head(ss).toolCalls[i])]]
         \o FlatToolCalls(Tail(ss))

\* result.text: the text of the last step.
ResultText(ss) == IF ss = <<>> THEN "" ELSE ss[Len(ss)].text

\* Response.json({text, toolCalls}) of the tool version, Response.json({text})
\* of the other two.
SuccessResponse(v, ss) ==
    IF v = "tools"
    THEN [status |-> 200, fields |-> {"text", "toolCalls"}, text |-> ResultText(ss),
          toolCalls |-> FlatToolCalls(ss), error |-> ""]
    ELSE [status |-> 200, fields |-> {"text"}, text |-> ResultText(ss),
          toolCalls |-> <<>>, error |-> ""]

\* The catch block of the tool version: error.message goes into the body.
CatchResponse(message) ==
    [status |-> 500, fields |-> {"text", "toolCalls", "error"}, text |-> FallbackText,
     toolCalls |-> <<>>, error |-> message]

\* SYSTEM_PROMPT computed anew for each request: its date is the request's.
SYSTEM_PROMPT_PerRequest(loaded, now) ==
    [prompt |-> "SYSTEM_PROMPT", today |-> now, eventsContext |-> <<>>]

\* SYSTEM_PROMPT of the tool version: a constant of the module, so the
\* "data di oggi" it embeds is the day the module was loaded, whatever the
\* day of the request.
SYSTEM_PROMPT(loaded, now) ==
    [prompt |-> "SYSTEM_PROMPT", today |-> loaded, eventsContext |-> <<>>]

\* The system prompt of each version, in a process proc; the today version
\* embeds the events.
SystemPrompt(v, proc, eventsContext) ==
    CASE v = "tools" -> SYSTEM_PROMPT(proc.loaded, proc.now)
      [] v = "today" -> [prompt |-> "systemPrompt", today |-> 0,
                         eventsContext |-> eventsContext]
      [] v = "plain" -> [prompt |-> "none", today |-> 0, eventsContext |-> <<>>]

\* One entry of formatEventsForContext's text.
ContextEntry(e) ==
    [titolo |-> e.titolo, descrizione |-> ContextDescrizione(e.descrizione),
     dataInizio |-> e.dataInizio, dataFine |-> e.dataFine, gratuito |-> e.gratuito]

\* formatEventsForContext: the fixed sentence for no events, else a heading
\* with the day formatEventsForContext reads from the clock and the entries.
formatEventsForContext(events, today) ==
    IF events = <<>>
    THEN [text |-> "Non ci sono eventi in programma per oggi.", today |-> 0,
          entries |-> <<>>]
    ELSE [text |-> "Eventi di oggi a Cesenatico:", today |-> today,
          entries |-> [i \in 1..Len(events) |-> ContextEntry(events[i])]]

\* The page size fetchTodayEvents asks for.
TodayLimit == 50

\* The request of fetchTodayEvents with the tests the other way round: events
\* that begin and end today.
TodayRequestWithin(today) ==
    CmsRequest("eventi",
               ("filters[dataInizio][$gte]" :> IsoDate(today)) @@
               ("filters[dataFine][$lte]" :> IsoDate(today)) @@
               ("pagination[limit]" :> Text(ToString(TodayLimit))))

\* The request of fetchTodayEvents for the day the request is served.
TodayRequest(today) ==
    CmsRequest("eventi",
               ("filters[dataInizio][$lte]" :> IsoDate(today)) @@
               ("filters[dataFine][$gte]" :> IsoDate(today)) @@
               ("pagination[limit]" :> Text(ToString(TodayLimit))))

\* An error raised in the action's body.  The tool version catches it, logs
\* it and answers with the fallback; the other versions have no try/catch and
\* the error leaves the action.
Raise(message) ==
    /\ thrown' = message
    /\ IF variant' = "tools"
       THEN /\ response' = CatchResponse(message)
            /\ serverLog' = serverLog \cup {message}
            /\ pc' = "done"
       ELSE /\ response' = NoResponse
            /\ serverLog' = serverLog
            /\ pc' = "escaped"

\* The action up to its first await that waits for the network.
ActionStart(v, req, today) ==
    /\ pc = "idle"
    /\ variant' = v
    /\ request' = req
    /\ process' = [process EXCEPT !.now = today]
    /\ UNCHANGED <<steps, current, pending, outputs, exchanges, chat, probe, browser>>
    /\ IF ~req.parsable
       THEN /\ Raise("Unexpected token in JSON")
            /\ UNCHANGED <<modelInputs, context, cms>>
       ELSE /\ UNCHANGED <<response, thrown, serverLog>>
            /\ context' = req.messages
            /\ IF v = "today"
               THEN /\ cms' = Append(cms, TodayRequest(today))
                    /\ modelInputs' = modelInputs
                    /\ pc' = "awaitCms"
               ELSE /\ cms' = cms
                    /\ modelInputs' = Append(modelInputs,
                                             ModelInput(SystemPrompt(v, process', <<>>), req.messages))
                    /\ pc' = "awaitModel"

\* The today version: the fetch of fetchTodayEvents settles, the events are
\* formatted into the system prompt and the model is called.
FetchTodaySettles(resp) ==
    /\ pc = "awaitCms"
    /\ exchanges' = Append(exchanges, [fn |-> "fetchTodayEvents", resp |-> resp,
                                       outcome |-> fetchTodayEvents(resp)])
    /\ serverLog' = IF resp.kind = "network" THEN serverLog \cup {"Failed to fetch events"}
                    ELSE IF ~ok(resp)
                    THEN serverLog \cup {"Strapi API error: " \o ToString(resp.status)}
                    ELSE serverLog
    /\ modelInputs' = Append(modelInputs,
                             ModelInput(SystemPrompt("today", process,
                                 <<formatEventsForContext(fetchTodayEvents(resp).value,
                                                          process.now)>>),
                                 context))
    /\ pc' = "awaitModel"
    /\ UNCHANGED <<variant, request, context, steps, current, pending, outputs, cms,
                   response, thrown, chat, probe, process, browser>>

\* The outputs of a step, in call order.
OutputsInOrder(outs, n) == [i \in 1..n |-> outs[i]]

\* generateText once every tool call of the step has an output: the step is
\* recorded; the loop ends (the action returns its response) when the stop
\* condition holds, else the step's messages join the context and the model
\* is called again.
StepDone(reply, outs) ==
    LET step == Step(reply.text, reply.toolCalls, OutputsInOrder(outs, Len(reply.toolCalls)))
        newSteps == Append(steps, step)
    IN  /\ steps' = newSteps
        /\ thrown' = thrown
        /\ IF reply.toolCalls = <<>> \/ isStopConditionMet(Len(newSteps))
           THEN /\ response' = SuccessResponse(variant, newSteps)
                /\ pc' = "done"
                /\ UNCHANGED <<context, modelInputs>>
           ELSE /\ context' = context \o StepMessages(step)
                /\ modelInputs' = Append(modelInputs,
                                         ModelInput(SystemPrompt(variant, process, <<>>), context'))
                /\ pc' = "awaitModel"
                /\ response' = response

\* The model provider answers a model call.
ModelAnswers(reply) ==
    /\ pc = "awaitModel"
    /\ reply \in Replies(Len(modelInputs))
    /\ variant # "tools" => reply.toolCalls = <<>>
    /\ UNCHANGED <<variant, request, exchanges, chat, probe, process, browser>>
    /\ IF reply.failed
       THEN /\ Raise(reply.error)
            /\ UNCHANGED <<modelInputs, context, steps, current, pending, outputs, cms>>
       ELSE LET n == Len(reply.toolCalls)
                valid == {i \in 1..n : IsValidCall(reply.toolCalls[i])}
                invalid == [i \in (1..n) \ valid |-> InvalidOutput(reply.toolCalls[i])]
            IN  /\ current' = reply
                /\ serverLog' = serverLog
                /\ cms' = cms \o DispatchRequests(reply.toolCalls)
                /\ IF valid = {}
                   THEN /\ pending' = {}
                        /\ outputs' = <<>>
                        /\ StepDone(reply, invalid)
                   ELSE /\ pending' = valid
                        /\ outputs' = invalid
                        /\ pc' = "execTools"
                        /\ UNCHANGED <<modelInputs, context, steps, response, thrown>>

\* The CMS answers the request of tool call i; execute finishes with a result
\* or an error.  When it was the last call of the step, generateText goes on.
CmsAnswers(i, resp) ==
    /\ pc = "execTools"
    /\ i \in pending
    /\ LET call == current.toolCalls[i]
           outs == outputs @@ (i :> ToolOutput(call, EventiExecute(resp)))
       IN  /\ exchanges' = Append(exchanges, [fn |-> "strapiQuery", resp |-> resp,
                                              outcome |-> strapiQuery(resp)])
           /\ serverLog' = IF resp.kind = "http" /\ ~ok(resp)
                            THEN serverLog \cup {"[Strapi] Error " \o ToString(resp.status)}
                            ELSE serverLog
           /\ pending' = pending \ {i}
           /\ IF pending' = {}
              THEN /\ outputs' = <<>>
                   /\ StepDone(current, outs)
              ELSE /\ outputs' = outs
                   /\ UNCHANGED <<modelInputs, context, steps, response, thrown, pc>>
    /\ UNCHANGED <<variant, request, current, cms, chat, probe, process, browser>>

\* The text the Chat component shows when the response carries none.
ClientFallback(v) ==
    IF v = "tools" THEN "Mi dispiace, si e' verificato un errore."
    ELSE "Sorry, something went wrong."

\* The effect on fetcher.data: the placeholder becomes the assistant message.
ClientReceives ==
    /\ pc = "done"
    /\ chat' = IF response.text # "" THEN response.text ELSE ClientFallback(variant)
    /\ pc' = "shown"
    /\ UNCHANGED <<variant, request, modelInputs, context, steps, current, pending,
                   outputs, cms, exchanges, response, thrown, serverLog, probe,
                   process, browser>>

Days == 1..MaxDay

\* The server process right after its module was loaded on day d: the clock
\* reads d and no request has been served.
ProcessStarted(d) == [loaded |-> d, now |-> d, served |-> <<>>]

\* No value: null.
Null == [t |-> "null"]

\* The Chat component of version kind as mounted: useState([]), useState(""),
\* useState(null) or useState(false), and an idle fetcher without data.  The
\* field at is the position of the streaming version's handleSubmit and
\* fetched what its fetch yielded.  Three fields record what has gone over the
\* wire: payloads the "messages" fields posted so far, each with the messages
\* state it was built from; replies the bodies the fetcher has received, in
\* order; chunks the chunks read from the response of the current turn.
ChatMounted(kind) ==
    [kind |-> kind, messages |-> <<>>, input |-> <<>>, pendingMessage |-> Null,
     fetcherState |-> "idle", fetcherData |-> Null, isStreaming |-> FALSE,
     at |-> "idle", fetched |-> "none", payloads |-> <<>>, replies |-> <<>>,
     chunks |-> <<>>]

Init ==
    /\ variant = "tools"
    /\ request = [parsable |-> TRUE, messages |-> <<>>]
    /\ pc = "idle"
    /\ modelInputs = <<>>
    /\ context = <<>>
    /\ steps = <<>>
    /\ current = ModelReply("", <<>>)
    /\ pending = {}
    /\ outputs = <<>>
    /\ cms = <<>>
    /\ exchanges = <<>>
    /\ response = NoResponse
    /\ thrown = ""
    /\ serverLog = {}
    /\ chat = ""
    /\ probe = [op |-> "none"]
    /\ process = ProcessStarted(1)
    /\ browser = ChatMounted("tools")

Next ==
    \/ \E v \in Variants, req \in Requests, today \in Days : ActionStart(v, req, today)
    \/ \E resp \in CmsResponses : FetchTodaySettles(resp)
    \/ \E reply \in FirstReplies \cup LaterReplies : ModelAnswers(reply)
    \/ \E i \in 1..(MaxCalls + 1), resp \in CmsResponses : CmsAnswers(i, resp)
    \/ ClientReceives

Spec == Init /\ [][Next]_vars

FairSpec == Spec /\ WF_vars(Next)

-----------------------------------------------------------------------------
(* The pure functions on their own: the query builder against the CMS's    *)
(* filter semantics, and the description shapers.                          *)

\* An event record of the CMS with the fields the filters read.
Event(a, b) ==
    [id |-> 1, titolo |-> "Evento", descrizione |-> NoDesc,
     dataInizio |-> a, dataFine |-> b, gratuito |-> FALSE]

Has(params, key) == key \in DOMAIN params

\* The CMS's reading of the date filters of a query: filters[f][$gte]=v keeps
\* the records with f >= v, filters[f][$lte]=v those with f <= v.
CmsSelects(params, e) ==
    /\ Has(params, "filters[dataInizio][$gte]") =>
           e.dataInizio >= params["filters[dataInizio][$gte]"].day
    /\ Has(params, "filters[dataInizio][$lte]") =>
           e.dataInizio <= params["filters[dataInizio][$lte]"].day
    /\ Has(params, "filters[dataFine][$gte]") =>
           e.dataFine >= params["filters[dataFine][$gte]"].day
    /\ Has(params, "filters[dataFine][$lte]") =>
           e.dataFine <= params["filters[dataFine][$lte]"].day

\* The characters of the texts used as search text.
Spell(s) ==
    CASE s = "pesce" -> <<"p", "e", "s", "c", "e">>
      [] s = "Food" -> <<"F", "o", "o", "d">>
      [] OTHER -> <<>>

\* The lower-case form of a character.
Lower(c) ==
    CASE c = "P" -> "p" [] c = "E" -> "e" [] c = "S" -> "s" [] c = "C" -> "c"
      [] c = "F" -> "f" [] c = "O" -> "o" [] c = "D" -> "d"
      [] OTHER -> c

\* $containsi: hay contains needle, letter case ignored.
ContainsI(hay, needle) ==
    \E i \in 0..(Len(hay) - Len(needle)) :
        \A k \in 1..Len(needle) : Lower(hay[i + k]) = Lower(needle[k])

\* The CMS's reading of a containment filter on the related category's title:
\* a record is kept when its category's title contains the text.
CmsSelectsCategory(params, key, categoryTitle) ==
    Has(params, key) => ContainsI(categoryTitle, Spell(params[key].s))

\* The CMS's reading of the $or filters of a query: a record is kept when one
\* of the listed conditions holds; a query without them keeps every record.
CmsSelectsText(params, r) ==
    LET byTitolo == "filters[$or][0][titolo][$containsi]"
        byDescrizione == "filters[$or][1][descrizione][$containsi]"
    IN  IF ~Has(params, byTitolo) /\ ~Has(params, byDescrizione) THEN TRUE
        ELSE \/ Has(params, byTitolo) /\ ContainsI(r.titolo, Spell(params[byTitolo].s))
             \/ Has(params, byDescrizione)
                    /\ ContainsI(r.descrizione, Spell(params[byDescrizione].s))

\* Records whose texts the search filter is tried on: a match in the title, a
\* match in the description only (in capitals), no match.
TextRecords ==
    {[titolo |-> <<"P", "e", "s", "c", "e">>, descrizione |-> <<"b", "l", "u">>],
     [titolo |-> <<"S", "a", "g", "r", "a">>,
      descrizione |-> <<"d", "i", " ", "P", "E", "S", "C", "E", "!">>],
     [titolo |-> <<"S", "a", "g", "r", "a">>, descrizione |-> <<"b", "l", "u">>]}

\* Query probes: a window [s, e] with s <= e and an event [a, b] with a <= b.
QueryProbes ==
    {[op |-> "query", stage |-> "input",
      args |-> EventiInput(IsoDate(s), IsoDate(e), Undefined, Undefined, Undefined),
      event |-> Event(a, b)] :
        s \in Days, e \in Days, a \in Days, b \in Days}

\* Description lengths tried: the short ones and those around each budget.
Lengths ==
    (0..MaxShort) \cup ((ContextBudget - Slack)..(ContextBudget + Slack))
                  \cup ((ToolBudget - Slack)..(ToolBudget + Slack))

\* Descriptions with markup in other places: blanks around a tag, a "<" inside
\* a tag, a ">" that closes nothing, a "<" that nothing closes.
MarkupDescriptions ==
    {Desc(<<" ", "<", "b", ">", " ", "a", "<", "/", "b", ">", " ">>),
     Desc(<<"a", "<", "<", "i", ">", ">", "b">>),
     Desc(<<"a", ">", "b", "<", "c">>),
     Desc(<<"<", "b", "r", ">">>)}

\* Descriptions tried: absent, plain text, and text inside a markup tag.
Descriptions ==
    {NoDesc} \cup {Desc(Chars(n, "a")) : n \in Lengths}
             \cup {Desc(<<"<", "p", ">">> \o Chars(n, "a") \o <<"<", "/", "p", ">">>) :
                      n \in Lengths}
             \cup MarkupDescriptions

ShapeProbes ==
    {[op |-> "shape", stage |-> "input", shaper |-> sh, d |-> d] :
        sh \in {"tool", "context"}, d \in Descriptions}

\* The description a shaper puts into its result.
Shaped(shaper, d) ==
    IF shaper = "tool" THEN ShapeDescrizione(d) ELSE ContextDescrizione(d)

\* Argument objects tried on a tool: every combination of a few values of the
\* keys its schema declares (an absent key, an empty text, a zero limit, a
\* tipo outside the enum among them).
ToolInputs(tool) ==
    {in \in {ToolInput(st, cat, tip, gr, di, df, lim, tipo) :
                st \in {Undefined, Text(""), Text("pesce")},
                cat \in {Undefined, Text(""), Text("Food")},
                tip \in {Undefined, Text("Laboratorio")},
                gr \in {Undefined, Bool(TRUE), Bool(FALSE)},
                di \in {Undefined, IsoDate(1)},
                df \in {Undefined, IsoDate(MaxDay)},
                lim \in {Undefined, Num(0), Num(25)},
                tipo \in {Undefined, Text("hotel")} \cup {Text(t) : t \in Tipi}} :
        \A key \in DOMAIN in : key \notin SchemaKeys(tool) => in[key] = Undefined}

ToolProbes ==
    UNION {{[op |-> "tool", stage |-> "input", tool |-> tool, input |-> in] :
               in \in ToolInputs(tool)} : tool \in ToolNames}

\* Probes of fetchTodayEvents: a process whose module was loaded on one day
\* serves a request on that day or a later one, and the CMS holds an event
\* lasting from a to b, a <= b.
TodayProbes ==
    {q \in {[op |-> "today", stage |-> "input", loaded |-> l, day |-> d,
             event |-> Event(a, b)] : l \in Days, d \in Days, a \in Days, b \in Days} :
        q.loaded <= q.day /\ q.event.dataInizio <= q.event.dataFine}

\* An offer record of the CMS with the fields the filters read.
Offerta(a, b, attiva) ==
    [id |-> 7, titolo |-> "Offerta", disponibileInizio |-> a, disponibileFine |-> b,
     attiva |-> attiva]

\* The CMS's reading of the filters of an offer query: $eq on attiva, $lte and
\* $gte on the two ends of the validity period.
CmsSelectsOfferta(params, o) ==
    /\ Has(params, "filters[attiva][$eq]") =>
           o.attiva = (params["filters[attiva][$eq]"].s = "true")
    /\ Has(params, "filters[disponibileInizio][$gte]") =>
           o.disponibileInizio >= params["filters[disponibileInizio][$gte]"].day
    /\ Has(params, "filters[disponibileInizio][$lte]") =>
           o.disponibileInizio <= params["filters[disponibileInizio][$lte]"].day
    /\ Has(params, "filters[disponibileFine][$gte]") =>
           o.disponibileFine >= params["filters[disponibileFine][$gte]"].day
    /\ Has(params, "filters[disponibileFine][$lte]") =>
           o.disponibileFine <= params["filters[disponibileFine][$lte]"].day

\* A date argument: absent, or a day.
DateArgs == {Undefined} \cup {IsoDate(d) : d \in Days}

\* Offer probes: cerca_offerte with each bound of the window [s, e], s <= e,
\* given or left out, and an offer valid over [a, b], a <= b, active or not.
OfferteProbes ==
    {[op |-> "offerte", stage |-> "input",
      input |-> ToolInput(Undefined, Undefined, Undefined, Undefined, s, e,
                          Undefined, Undefined),
      offerta |-> Offerta(a, b, attiva)] :
        s \in DateArgs, e \in DateArgs, a \in Days, b \in Days, attiva \in BOOLEAN}

\* A category record of the CMS.
StubCategoria == [id |-> 3, titolo |-> "Sport", slug |-> "sport"]

\* What the CMS may answer to a tool's query.
ResponsesFor(tool) ==
    IF tool = "ottieni_categorie"
    THEN {OkResponse(<<>>, 0), OkResponse(<<StubCategoria>>, 1), HttpError(500), NetworkError}
    ELSE CmsResponses

InitPure ==
    /\ variant = "tools"
    /\ request = [parsable |-> TRUE, messages |-> <<>>]
    /\ pc = "idle"
    /\ modelInputs = <<>>
    /\ context = <<>>
    /\ steps = <<>>
    /\ current = ModelReply("", <<>>)
    /\ pending = {}
    /\ outputs = <<>>
    /\ cms = <<>>
    /\ exchanges = <<>>
    /\ response = NoResponse
    /\ thrown = ""
    /\ serverLog = {}
    /\ chat = ""
    /\ process = ProcessStarted(1)
    /\ browser = ChatMounted("tools")
    /\ probe \in {q \in QueryProbes : q.args.dataInizio.day <= q.args.dataFine.day
                                      /\ q.event.dataInizio <= q.event.dataFine}
                 \cup ShapeProbes \cup ToolProbes \cup TodayProbes
                 \cup {q \in OfferteProbes :
                          /\ q.offerta.disponibileInizio <= q.offerta.disponibileFine
                          /\ (q.input.dataInizio.t = "string" /\ q.input.dataFine.t = "string")
                                 => q.input.dataInizio.day <= q.input.dataFine.day}

\* cerca_eventi builds its query parameters from the validated arguments.
QueryBuild ==
    /\ probe.op = "query" /\ probe.stage = "input"
    /\ EventiSchemaAccepts(probe.args)
    /\ probe' = [op |-> "query", stage |-> "built", args |-> probe.args,
                 event |-> probe.event,
                 params |-> EventiParams(EventiSchemaParse(probe.args))]
    /\ UNCHANGED <<turnVars, process, browser>>

\* The CMS evaluates the query on the event.
QuerySelect ==
    /\ probe.op = "query" /\ probe.stage = "built"
    /\ probe' = [op |-> "query", stage |-> "selected", args |-> probe.args,
                 event |-> probe.event, params |-> probe.params,
                 selected |-> CmsSelects(probe.params, probe.event)]
    /\ UNCHANGED <<turnVars, process, browser>>

\* A record's description is shaped.
ShapeOnce ==
    /\ probe.op = "shape" /\ probe.stage = "input"
    /\ probe' = [op |-> "shape", stage |-> "once", shaper |-> probe.shaper,
                 d |-> probe.d, out |-> Shaped(probe.shaper, probe.d)]
    /\ UNCHANGED <<turnVars, process, browser>>

\* The shaped description is shaped again.
ShapeTwice ==
    /\ probe.op = "shape" /\ probe.stage = "once"
    /\ probe' = [op |-> "shape", stage |-> "twice", shaper |-> probe.shaper,
                 d |-> probe.d, out |-> probe.out,
                 again |-> Shaped(probe.shaper, Desc(probe.out))]
    /\ UNCHANGED <<turnVars, process, browser>>

\* ottieni_categorie.execute finds no endpoint for its tipo: if (!endpoint).
NoEndpoint(tool, a) == tool = "ottieni_categorie" /\ a.tipo.s \notin DOMAIN endpoints

\* A tool call whose input the schema accepts: execute builds the parameters
\* and calls strapiQuery once, which sends its request; ottieni_categorie
\* returns an error value instead when it has no endpoint for the tipo.
ToolQuery ==
    /\ probe.op = "tool" /\ probe.stage = "input"
    /\ SchemaAccepts(probe.tool, probe.input)
    /\ LET a == SchemaParse(probe.tool, probe.input)
       IN  probe' = IF NoEndpoint(probe.tool, a)
                    THEN [op |-> "tool", stage |-> "returned", tool |-> probe.tool,
                          input |-> probe.input, args |-> a, requests |-> <<>>,
                          resp |-> Null,
                          outcome |-> Return("error" :> "Tipo non valido")]
                    ELSE [op |-> "tool", stage |-> "queried", tool |-> probe.tool,
                          input |-> probe.input, args |-> a,
                          requests |-> <<ToolRequest(probe.tool, a)>>]
    /\ UNCHANGED <<turnVars, process, browser>>

\* A tool call whose input the schema rejects: execute is not called and the
\* call's output is the validation error.
ToolRejected ==
    /\ probe.op = "tool" /\ probe.stage = "input"
    /\ ~SchemaAccepts(probe.tool, probe.input)
    /\ probe' = [op |-> "tool", stage |-> "rejected", tool |-> probe.tool,
                 input |-> probe.input, requests |-> <<>>,
                 output |-> InvalidOutput(ToolCall(probe.tool, probe.input))]
    /\ UNCHANGED <<turnVars, process, browser>>

\* The CMS answers and execute returns its result or throws.
ToolReturn(resp) ==
    /\ probe.op = "tool" /\ probe.stage = "queried"
    /\ resp \in ResponsesFor(probe.tool)
    /\ probe' = [op |-> "tool", stage |-> "returned", tool |-> probe.tool,
                 input |-> probe.input, args |-> probe.args,
                 requests |-> probe.requests, resp |-> resp,
                 outcome |-> ToolExecute(probe.tool, probe.args, resp)]
    /\ UNCHANGED <<turnVars, process, browser>>

\* fetchTodayEvents sends its request.
TodayQuery ==
    /\ probe.op = "today" /\ probe.stage = "input"
    /\ probe' = [op |-> "today", stage |-> "queried", loaded |-> probe.loaded,
                 day |-> probe.day, event |-> probe.event,
                 requests |-> <<TodayRequest(probe.day)>>]
    /\ UNCHANGED <<turnVars, process, browser>>

\* The CMS evaluates the query of fetchTodayEvents on the event.
TodaySelect ==
    /\ probe.op = "today" /\ probe.stage = "queried"
    /\ probe' = [op |-> "today", stage |-> "selected", loaded |-> probe.loaded,
                 day |-> probe.day, event |-> probe.event, requests |-> probe.requests,
                 selected |-> CmsSelects(probe.requests[1].params, probe.event)]
    /\ UNCHANGED <<turnVars, process, browser>>

\* cerca_offerte builds its query parameters from the validated arguments.
OfferteBuild ==
    /\ probe.op = "offerte" /\ probe.stage = "input"
    /\ SchemaAccepts("cerca_offerte", probe.input)
    /\ LET a == SchemaParse("cerca_offerte", probe.input)
       IN  probe' = [op |-> "offerte", stage |-> "built", input |-> probe.input,
                     offerta |-> probe.offerta,
                     requests |-> <<ToolRequest("cerca_offerte", a)>>]
    /\ UNCHANGED <<turnVars, process, browser>>

\* The CMS evaluates the query on the offer.
OfferteSelect ==
    /\ probe.op = "offerte" /\ probe.stage = "built"
    /\ probe' = [op |-> "offerte", stage |-> "selected", input |-> probe.input,
                 offerta |-> probe.offerta, requests |-> probe.requests,
                 selected |-> CmsSelectsOfferta(probe.requests[1].params, probe.offerta)]
    /\ UNCHANGED <<turnVars, process, browser>>

NextPure ==
    \/ QueryBuild
    \/ QuerySelect
    \/ ShapeOnce
    \/ ShapeTwice
    \/ ToolQuery
    \/ ToolRejected
    \/ \E resp \in CmsResponses \cup ResponsesFor("ottieni_categorie") : ToolReturn(resp)
    \/ TodayQuery
    \/ TodaySelect
    \/ OfferteBuild
    \/ OfferteSelect

SpecPure == InitPure /\ [][NextPure]_vars

-----------------------------------------------------------------------------
(* One server process serving several requests.  An action keeps nothing   *)
(* from one request to the next: all it reads besides the request is the   *)
(* module's constants, the clock and, in the today version, the CMS.  A    *)
(* request is followed here up to its call of generateText.                *)

\* Message histories a request may carry.
Histories ==
    {History,
     <<UserMessage("Cosa posso fare oggi?"),
       [role |-> "assistant", content |-> "Ecco gli eventi"],
       UserMessage("E domani?")>>}

\* The system prompt and messages the action of version v hands to
\* generateText for a request with the given messages, served by process proc;
\* resp is what the CMS answers to fetchTodayEvents.
ServedInput(v, proc, messages, resp) ==
    IF v = "today"
    THEN ModelInput(SystemPrompt(v, proc,
                        <<formatEventsForContext(fetchTodayEvents(resp).value, proc.now)>>),
                    messages)
    ELSE ModelInput(SystemPrompt(v, proc, <<>>), messages)

\* The process serves one more request on day today.
Serve(messages, today, resp) ==
    /\ Len(process.served) < MaxServed
    /\ today >= process.now
    /\ variant # "today" => resp = Null
    /\ variant = "today" => resp \in CmsResponses
    /\ LET proc == [process EXCEPT !.now = today]
       IN  process' = [proc EXCEPT !.served =
                          Append(@, [messages |-> messages, today |-> today, resp |-> resp,
                                     input |-> ServedInput(variant, proc, messages, resp)])]
    /\ UNCHANGED <<turnVars, probe, browser>>

InitProcess ==
    /\ variant \in Variants
    /\ request = [parsable |-> TRUE, messages |-> <<>>]
    /\ pc = "idle"
    /\ modelInputs = <<>>
    /\ context = <<>>
    /\ steps = <<>>
    /\ current = ModelReply("", <<>>)
    /\ pending = {}
    /\ outputs = <<>>
    /\ cms = <<>>
    /\ exchanges = <<>>
    /\ response = NoResponse
    /\ thrown = ""
    /\ serverLog = {}
    /\ chat = ""
    /\ probe = [op |-> "none"]
    /\ process \in {ProcessStarted(d) : d \in Days}
    /\ browser = ChatMounted("tools")

NextProcess ==
    \E messages \in Histories, today \in Days, resp \in CmsResponses \cup {Null} :
        Serve(messages, today, resp)

SpecProcess == InitProcess /\ [][NextProcess]_vars

-----------------------------------------------------------------------------
(* The Chat component in the browser, over several turns.  The three       *)
(* versions that use a fetcher differ in the fallback text only (the list  *)
(* of tool calls the tool version shows with a message is left out); the   *)
(* streaming version (src/app/routes/home.tsx, lines 195-380) reads the    *)
(* response body itself.                                                   *)

ChatKinds == Variants \cup {"streaming"}

\* Messages of the component's state.
UserSays(chars) == [role |-> "user", content |-> [typed |-> chars]]
AssistantSays(text) == [role |-> "assistant", content |-> [text |-> text]]
Placeholder == AssistantSays("")

\* What the user may have typed into the input field.
Inputs == {<<>>, <<" ">>, <<"c", "i", "a", "o">>, <<" ", "o", "g", "g", "i", " ">>}

\* The bodies an action may return to the fetcher.
FetcherReplies(kind) ==
    {[text |-> "Ecco gli eventi", error |-> ""], [text |-> "", error |-> ""]}
        \cup (IF kind = "tools"
              THEN {[text |-> FallbackText, error |-> "429 rate limit exceeded for key sk-live-1"]}
              ELSE {})

\* The text shown when the streaming version's handleSubmit catches an error.
StreamFallback == "Sorry, something went wrong. Please try again."

\* The messages shown with their last one replaced.
ReplaceLast(messages, message) ==
    [i \in 1..Len(messages) |-> IF i = Len(messages) THEN message ELSE messages[i]]

\* The messages handleSubmit posts, having set the state to shown: a payload
\* that is the state it has just set.
SubmittedMessagesShown(newMessages, shown) == shown

\* The messages handleSubmit posts: JSON.stringify(newMessages).
SubmittedMessages(newMessages, shown) == newMessages

\* The effect on [fetcher.data, pendingMessage] has work to do.
EffectDue ==
    /\ browser.kind # "streaming"
    /\ browser.fetcherData # Null
    /\ browser.pendingMessage # Null

\* The component is rendered and no effect is waiting to run.
Settled == browser.at # "error" /\ ~EffectDue

\* The input field is enabled: disabled={isLoading}, disabled={isStreaming}.
InputEnabled == browser.fetcherState = "idle" /\ ~browser.isStreaming

\* The user edits the input field.
Type(chars) ==
    /\ Settled
    /\ InputEnabled
    /\ chars # browser.input
    /\ browser' = [browser EXCEPT !.input = chars]
    /\ UNCHANGED <<turnVars, probe, process>>

\* handleSubmit with a guard that lets an empty input through.
RejectedWhenBusy(input, busy) == busy

\* The guard of handleSubmit: if (!input.trim() || isLoading) return; (with
\* isStreaming in the streaming version).
Rejected(input, busy) == trim(input) = <<>> \/ busy

\* handleSubmit of the versions with a fetcher: nothing when the trimmed input
\* is empty or the fetcher is busy; else the user message and the placeholder
\* are shown and the messages up to the user message are posted.
handleSubmit ==
    /\ Settled
    /\ browser.kind # "streaming"
    /\ Len(browser.payloads) < MaxTurns
    /\ IF Rejected(browser.input, browser.fetcherState # "idle")
       THEN browser' = browser
       ELSE LET newMessages == Append(browser.messages, UserSays(trim(browser.input)))
                shown == Append(newMessages, Placeholder)
            IN  browser' = [browser EXCEPT
                    !.messages = shown,
                    !.pendingMessage = [typed |-> trim(browser.input)],
                    !.input = <<>>,
                    !.fetcherState = "submitting",
                    !.payloads = Append(@, [prior |-> browser.messages,
                                            body |-> SubmittedMessages(newMessages, shown)])]
    /\ UNCHANGED <<turnVars, probe, process>>

\* The action's response reaches the fetcher: fetcher.data is the new body
\* (until then it is the body of the previous response) and the fetcher
\* revalidates.
ActionReturns(data) ==
    /\ Settled
    /\ browser.fetcherState = "submitting"
    /\ data \in FetcherReplies(browser.kind)
    /\ browser' = [browser EXCEPT !.fetcherData = data, !.fetcherState = "loading",
                                   !.replies = Append(@, data)]
    /\ UNCHANGED <<turnVars, probe, process>>

\* The action of the today or plain version threw: the route's error boundary
\* replaces the component.
ActionThrows ==
    /\ Settled
    /\ browser.kind \in {"today", "plain"}
    /\ browser.fetcherState = "submitting"
    /\ browser' = [browser EXCEPT !.fetcherState = "idle", !.at = "error"]
    /\ UNCHANGED <<turnVars, probe, process>>

\* The revalidation after the action ends.
Revalidated ==
    /\ Settled
    /\ browser.fetcherState = "loading"
    /\ browser' = [browser EXCEPT !.fetcherState = "idle"]
    /\ UNCHANGED <<turnVars, probe, process>>

\* The effect: with fetcher.data present and a pending message, the last
\* message becomes the assistant's text (or the fallback) and the pending
\* message is cleared.
ResponseEffect ==
    /\ browser.at # "error"
    /\ EffectDue
    /\ LET text == IF browser.fetcherData.text # "" THEN browser.fetcherData.text
                   ELSE ClientFallback(browser.kind)
       IN  browser' = [browser EXCEPT
               !.messages = ReplaceLast(@, AssistantSays(text)),
               !.pendingMessage = Null]
    /\ UNCHANGED <<turnVars, probe, process>>

\* An assistant message of the streaming version: its content is kept as
\* characters, for the stream loop builds it from the characters it reads.
StreamSays(chars) == [role |-> "assistant", content |-> [chars |-> chars]]

\* Chunks the reader may yield.  The action answers with toTextStreamResponse:
\* the body is the model's text as it is generated, so a chunk is a piece of
\* that text: plain words, words over two lines, and pieces of a text that
\* itself holds 0: at the start of a line.
StreamChunks ==
    {<<"C", "i", "a", "o">>,
     <<"a", "\n", "b">>,
     <<"0", ":", "\"", "x", "\"">>,
     <<"0", ":", "x">>,
     <<"0", ":">>}

\* chunk.split("\n")
RECURSIVE Split(_)
Split(s) ==
    LET breaks == {i \in 1..Len(s) : s[i] = "\n"}
    IN  IF breaks = {} THEN <<s>>
        ELSE <<SubSeq(s, 1, Min(breaks) - 1)>>
                 \o Split(SubSeq(s, Min(breaks) + 1, Len(s)))

\* line.startsWith("0:")
StartsWith0(line) == Len(line) >= 2 /\ line[1] = "0" /\ line[2] = ":"

\* JSON.parse of the texts that follow 0: in the chunks tried: a string
\* literal without escapes yields its characters, anything else is a syntax
\* error (the empty text and a bare word among them).
JSONParse(s) ==
    IF /\ Len(s) >= 2 /\ s[1] = "\"" /\ s[Len(s)] = "\""
       /\ \A i \in 2..(Len(s) - 1) : s[i] \notin {"\"", "\\", "\n"}
    THEN Return(SubSeq(s, 2, Len(s) - 1))
    ELSE Throw("SyntaxError")

\* The for loop over the lines of one chunk, from the content built so far: a
\* line that starts with 0: is parsed and its text added; a parse error ends
\* the loop with what was added before it.
RECURSIVE ForLines(_, _)
ForLines(lines, assistantContent) ==
    IF lines = <<>> THEN [content |-> assistantContent, threw |-> FALSE]
    ELSE IF ~StartsWith0(Head(lines)) THEN ForLines(Tail(lines), assistantContent)
    ELSE LET text == JSONParse(SubSeq(Head(lines), 3, Len(Head(lines))))
         IN  IF text.kind = "throw"
             THEN [content |-> assistantContent, threw |-> TRUE]
             ELSE ForLines(Tail(lines), assistantContent \o text.value)

\* handleSubmit of the streaming version up to its fetch.
handleSubmitStreaming ==
    /\ browser.kind = "streaming"
    /\ browser.at \in {"idle", "awaitFetch", "reading"}
    /\ Len(browser.payloads) < MaxTurns
    /\ IF Rejected(browser.input, browser.isStreaming)
       THEN browser' = browser
       ELSE LET newMessages == Append(browser.messages, UserSays(trim(browser.input)))
            IN  browser' = [browser EXCEPT
                    !.messages = newMessages,
                    !.input = <<>>,
                    !.isStreaming = TRUE,
                    !.at = "awaitFetch",
                    !.fetched = "none",
                    !.chunks = <<>>,
                    !.payloads = Append(@, [prior |-> browser.messages,
                                            body |-> SubmittedMessages(newMessages,
                                                                       newMessages)])]
    /\ UNCHANGED <<turnVars, probe, process>>

\* The catch block without the finally block: isStreaming is left as it is.
CaughtWithoutFinally(b) ==
    [b EXCEPT !.messages = Append(@, AssistantSays(StreamFallback)), !.at = "idle"]

\* The catch and finally blocks of the streaming handleSubmit, entered from
\* state b: the fallback is appended and isStreaming becomes false.
CaughtWhileStreaming(b) ==
    [b EXCEPT !.messages = Append(@, AssistantSays(StreamFallback)),
              !.isStreaming = FALSE, !.at = "idle"]

\* What the fetch of the streaming version may yield: a rejection, a response
\* that is not ok, an ok response without a body, an ok response with a body.
FetchOutcomes == {"rejected", "notOk", "noBody", "ok"}

\* The fetch settles: a rejected fetch, a response that is not ok and a
\* missing reader are thrown and caught; else the empty assistant message is
\* appended and reading starts.
FetchSettles(outcome) ==
    /\ browser.kind = "streaming" /\ browser.at = "awaitFetch"
    /\ browser' = IF outcome # "ok"
                  THEN CaughtWhileStreaming([browser EXCEPT !.fetched = outcome])
                  ELSE [browser EXCEPT !.messages = Append(@, StreamSays(<<>>)),
                                       !.fetched = outcome,
                                       !.at = "reading"]
    /\ UNCHANGED <<turnVars, probe, process>>

\* reader.read() yields a chunk: its lines are gone through, the last message
\* gets the content built so far, and a parse error is caught.
ReadChunk(chunk) ==
    /\ browser.kind = "streaming" /\ browser.at = "reading"
    /\ Len(browser.chunks) < MaxChunks
    /\ LET last == browser.messages[Len(browser.messages)]
           loop == ForLines(Split(chunk), last.content.chars)
           read == [browser EXCEPT
                       !.chunks = Append(@, chunk),
                       !.messages = ReplaceLast(@, StreamSays(loop.content))]
       IN  browser' = IF loop.threw THEN CaughtWhileStreaming(read) ELSE read
    /\ UNCHANGED <<turnVars, probe, process>>

\* reader.read() rejects (the connection drops while the body is streamed):
\* the error is caught.
ReadThrows ==
    /\ browser.kind = "streaming" /\ browser.at = "reading"
    /\ browser' = CaughtWhileStreaming([browser EXCEPT !.fetched = "dropped"])
    /\ UNCHANGED <<turnVars, probe, process>>

\* reader.read() yields done: the loop ends and the finally block runs.
ReadDone ==
    /\ browser.kind = "streaming" /\ browser.at = "reading"
    /\ browser' = [browser EXCEPT !.isStreaming = FALSE, !.at = "idle"]
    /\ UNCHANGED <<turnVars, probe, process>>

InitChat ==
    /\ variant = "tools"
    /\ request = [parsable |-> TRUE, messages |-> <<>>]
    /\ pc = "idle"
    /\ modelInputs = <<>>
    /\ context = <<>>
    /\ steps = <<>>
    /\ current = ModelReply("", <<>>)
    /\ pending = {}
    /\ outputs = <<>>
    /\ cms = <<>>
    /\ exchanges = <<>>
    /\ response = NoResponse
    /\ thrown = ""
    /\ serverLog = {}
    /\ chat = ""
    /\ probe = [op |-> "none"]
    /\ process = ProcessStarted(1)
    /\ browser \in {ChatMounted(kind) : kind \in ChatKinds}

NextChat ==
    \/ \E chars \in Inputs : Type(chars)
    \/ handleSubmit
    \/ \E data \in UNION {FetcherReplies(kind) : kind \in Variants} : ActionReturns(data)
    \/ ActionThrows
    \/ Revalidated
    \/ ResponseEffect
    \/ handleSubmitStreaming
    \/ \E outcome \in FetchOutcomes : FetchSettles(outcome)
    \/ \E chunk \in StreamChunks : ReadChunk(chunk)
    \/ ReadThrows
    \/ ReadDone

SpecChat == InitChat /\ [][NextChat]_vars

\* A step of the streaming version's awaits: the fetch settles, or the reader
\* yields a chunk, the end of the stream, or an error.
StreamStep ==
    \/ \E outcome \in FetchOutcomes : FetchSettles(outcome)
    \/ \E chunk \in StreamChunks : ReadChunk(chunk)
    \/ ReadThrows
    \/ ReadDone

\* The fetch and the response stream come to an end: a promise handleSubmit
\* awaits settles, and a body has finitely many chunks.
FairSpecChat == SpecChat /\ WF_vars(StreamStep)

-----------------------------------------------------------------------------
(* Properties of a turn.                                                   *)

\* The action has returned or failed.
TurnOver == pc \in {"done", "shown", "escaped"}

\* The model requested a tool call in every response so far.
AlwaysRequestsTools ==
    /\ Len(steps) >= 1
    /\ \A k \in 1..Len(steps) : steps[k].toolCalls # <<>>

\* In a turn of the tool version whose model requests tool calls in every
\* response, the model is invoked at most 5 times, and a turn that returns
\* normally carries the text of the last step (which may be empty).
StepCapHolds ==
    (variant = "tools" /\ (steps = <<>> \/ AlwaysRequestsTools)) =>
        /\ Len(modelInputs) <= 5
        /\ Len(steps) <= 5
        /\ (pc \in {"done", "shown"} /\ thrown = "") =>
               /\ response.status = 200
               /\ response.text = steps[Len(steps)].text

\* C1: given a model that requests a tool call in every response, a turn of
\* the tool version invokes the model at most maxSteps (5) times and then
\* terminates, returning the last available text; it never loops forever.
C1_StepCapTerminates == []StepCapHolds /\ <>TurnOver

\* A turn of the tool version ended normally after a model response that
\* requested tool calls, with an empty last text.
C1_Witness ==
    /\ variant = "tools" /\ pc = "done" /\ thrown = ""
    /\ AlwaysRequestsTools
    /\ Len(modelInputs) >= 1
    /\ response.status = 200 /\ response.text = ""

Range(f) == {f[i] : i \in DOMAIN f}

\* The tool outputs carried by the tool messages of a model call's context.
OutputsInMessages(msgs) ==
    UNION {IF msgs[j].role = "tool" THEN Range(msgs[j].toolOutputs) ELSE {} :
              j \in 1..Len(msgs)}

\* C2: the model is re-invoked only after every tool call of the step has
\* resolved, and all the results of the step are in the message context of the
\* next model invocation.  Stated for the steps below the cap of 5, after
\* which the model is to be invoked again.
C2_ResultsReachNextModelCall ==
    /\ pc = "awaitModel" => pending = {}
    /\ (variant = "tools" /\ pc \in {"done", "shown"} /\ thrown = "") =>
           \A k \in 1..Len(steps) :
               (steps[k].toolCalls # <<>> /\ k < 5) =>
                   /\ Len(steps[k].toolOutputs) = Len(steps[k].toolCalls)
                   /\ Len(modelInputs) > k
                   /\ Range(steps[k].toolOutputs) \subseteq
                          OutputsInMessages(modelInputs[k + 1].messages)

\* The outcome a caller of the CMS client function fn sees for a response.
ClientOutcome(fn, resp) ==
    IF fn = "strapiQuery" THEN strapiQuery(resp) ELSE fetchTodayEvents(resp)

\* C4: at the CMS client layer (strapiQuery and fetchTodayEvents) the outcome
\* of a failed request differs from the outcome of a successful request that
\* returned zero records.
C4_FailureIsNotEmptyList ==
    \A n \in 1..Len(exchanges) :
        Failed(exchanges[n].resp) =>
            exchanges[n].outcome # ClientOutcome(exchanges[n].fn, OkResponse(<<>>, 0))

\* The output of a call whose query found zero records.
ZeroResultsOutput(call) == ToolOutput(call, EventiExecute(OkResponse(<<>>, 0)))

\* C5: when the CMS answers a tool's query with status 500, the turn still
\* returns 200 with the model's text, and the tool result reports the service
\* error, differs from the result for zero records, and is given to the model.
C5_ServiceErrorContained ==
    (variant = "tools" /\ pc \in {"done", "shown"}) =>
        \A k \in 1..Len(steps) : \A i \in 1..Len(steps[k].toolOutputs) :
            LET out == steps[k].toolOutputs[i]
            IN  (out.type = "tool-error" /\ out.error = "Strapi API error: 500") =>
                    /\ response.status = 200
                    /\ out # ZeroResultsOutput(steps[k].toolCalls[i])
                    /\ \E j \in 1..Len(modelInputs) :
                           out \in OutputsInMessages(modelInputs[j].messages)

\* C6: in every version of the action an internal failure (unparsable
\* messages field, failed model call) yields a response with a non-200 status,
\* the fixed fallback text and an error field; no failure leaves the action as
\* an unhandled exception.
C6_FailureYieldsFallback ==
    /\ pc # "escaped"
    /\ (TurnOver /\ thrown # "") =>
           /\ response.status \notin {0, 200}
           /\ response.text = FallbackText
           /\ "error" \in response.fields

\* C7: when the model call fails, the raw error text is only logged: it is in
\* the server log, not in the response body and not in the chat message.
C7_RawErrorOnlyLogged ==
    (variant = "tools" /\ thrown \in RawErrors /\ TurnOver) =>
        /\ thrown \in serverLog
        /\ response.text # thrown
        /\ response.error # thrown
        /\ chat # thrown

\* Arguments as the tool's description asks for them: the types of the schema,
\* and dates that are ISO YYYY-MM-DD strings.
WellFormedInput(input) ==
    /\ EventiSchemaAccepts(input)
    /\ input.dataInizio.t = "string" => input.dataInizio.iso
    /\ input.dataFine.t = "string" => input.dataFine.iso

\* The calls of a reply that are well formed.
WellFormedCalls(toolCalls) ==
    {i \in 1..Len(toolCalls) : WellFormedInput(toolCalls[i].input)}

\* The number of CMS requests the steps so far and the step in progress
\* should have issued: one per well-formed call.
RECURSIVE WellFormedCount(_)
WellFormedCount(ss) ==
    IF ss = <<>> THEN 0
    ELSE Cardinality(WellFormedCalls(Head(ss).toolCalls)) + WellFormedCount(Tail(ss))

\* C8: a tool call with malformed arguments (a date that is no ISO date, a
\* value of the wrong type) fails validation before execute runs: its output
\* is the validation error, no CMS request is issued for it, and the turn
\* still ends.
C8_MalformedCallNotExecuted ==
    (variant = "tools" /\ pc \in {"done", "shown"} /\ thrown = "") =>
        /\ response.status = 200
        /\ Len(cms) = WellFormedCount(steps)
        /\ \A k \in 1..Len(steps) : \A i \in 1..Len(steps[k].toolCalls) :
               ~WellFormedInput(steps[k].toolCalls[i].input) =>
                   steps[k].toolOutputs[i] = InvalidOutput(steps[k].toolCalls[i])

-----------------------------------------------------------------------------
(* Properties of the pure functions.                                       *)

\* The event [a, b] overlaps the window [s, e].
Overlaps(event, s, e) == event.dataInizio <= e /\ event.dataFine >= s

\* C3: for every window [s, e] with s <= e given to cerca_eventi as dataInizio
\* and dataFine, the emitted filter selects exactly the events that overlap the
\* window: event.dataInizio <= e and event.dataFine >= s.
C3_WindowSelectsOverlap ==
    (probe.op = "query" /\ probe.stage = "selected") =>
        (probe.selected <=>
            Overlaps(probe.event, probe.args.dataInizio.day, probe.args.dataFine.day))

Budget(shaper) == IF shaper = "tool" THEN ToolBudget ELSE ContextBudget

\* The description text a shaper truncates: the record's text (none when
\* absent); formatEventsForContext strips tags and trims it first.
Untruncated(shaper, d) ==
    IF d.t = "undefined" THEN <<>>
    ELSE IF shaper = "tool" THEN d.chars
    ELSE trim(StripTags(d.chars))

\* C9: the marker "..." is appended to a shaped description if and only if the
\* untruncated description is at least as long as the budget (300 in the tools,
\* 200 in formatEventsForContext); a shorter or absent one gets no marker.
C9_MarkerIffTruncated ==
    (probe.op = "shape" /\ probe.stage \in {"once", "twice"}) =>
        LET u == Untruncated(probe.shaper, probe.d)
            b == Budget(probe.shaper)
        IN  IF Len(u) >= b
            THEN probe.out = substring(u, b) \o Ellipsis
            ELSE probe.out = u

\* C10: shaping is idempotent on short text (shaping a shaped description
\* under the budget returns it unchanged); at or over the budget the output is
\* budget + 3 long and shaping it again adds no second marker.
C10_ShapingIdempotent ==
    (probe.op = "shape" /\ probe.stage = "twice") =>
        LET u == Untruncated(probe.shaper, probe.d)
            b == Budget(probe.shaper)
        IN  /\ Len(u) >= b => Len(probe.out) = b + Len(Ellipsis)
            /\ probe.again = probe.out

\* s is a prefix of u followed by at most one marker.
PrefixWithMarker(s, u) ==
    \E n \in 0..Len(u) : s = SubSeq(u, 1, n) \/ s = SubSeq(u, 1, n) \o Ellipsis

\* C11: for a record of any length the shaped description is at most
\* budget + 3 characters long (303 in the tools, 203 in formatEventsForContext)
\* and is a prefix of the record's description followed by at most one marker;
\* a description longer than the budget is never carried untruncated.
C11_ShapedDescriptionBounded ==
    (probe.op = "shape" /\ probe.stage \in {"once", "twice"}) =>
        LET u == Untruncated(probe.shaper, probe.d)
            b == Budget(probe.shaper)
        IN  /\ Len(probe.out) <= b + Len(Ellipsis)
            /\ PrefixWithMarker(probe.out, u)
            /\ Len(u) > b => SubSeq(probe.out, 1, Min({Len(probe.out), Len(u)})) # u

-----------------------------------------------------------------------------
(* Properties of the query builders.                                       *)

\* The parameters of the request a probed tool call sent.
SentParams == probe.requests[1].params

\* A probed tool call has sent its request.
ToolQueried(toolSet) ==
    probe.op = "tool" /\ probe.stage \in {"queried", "returned"} /\ probe.tool \in toolSet

\* C12: in cerca_eventi and cerca_experiences an omitted gratuito emits no
\* filters[gratuito] parameter, and an explicit true or false emits the
\* parameter with that value (so the three parameter sets differ pairwise).
C12_GratuitoTriState ==
    ToolQueried({"cerca_eventi", "cerca_experiences"}) =>
        LET g == probe.input.gratuito
        IN  /\ g.t = "undefined" => ~Has(SentParams, "filters[gratuito][$eq]")
            /\ g.t = "boolean" =>
                   /\ Has(SentParams, "filters[gratuito][$eq]")
                   /\ SentParams["filters[gratuito][$eq]"] =
                          Text(IF g.b THEN "true" ELSE "false")

\* cerca_eventi was called with gratuito explicitly false and sent the filter.
C12_Witness ==
    /\ ToolQueried({"cerca_eventi"})
    /\ probe.input.gratuito = Bool(FALSE)
    /\ Has(SentParams, "filters[gratuito][$eq]")

\* The two searchText parameters carry the text t.
SearchTextEmitted(t) ==
    /\ Has(SentParams, "filters[$or][0][titolo][$containsi]")
    /\ Has(SentParams, "filters[$or][1][descrizione][$containsi]")
    /\ SentParams["filters[$or][0][titolo][$containsi]"] = t
    /\ SentParams["filters[$or][1][descrizione][$containsi]"] = t

NoSearchTextEmitted ==
    /\ ~Has(SentParams, "filters[$or][0][titolo][$containsi]")
    /\ ~Has(SentParams, "filters[$or][1][descrizione][$containsi]")

\* The query selects exactly the records that contain t in title or description.
SelectsByText(t) ==
    \A r \in TextRecords :
        CmsSelectsText(SentParams, r) <=>
            (ContainsI(r.titolo, Spell(t.s)) \/ ContainsI(r.descrizione, Spell(t.s)))

\* C13 as stated: in each of the five search tools a supplied searchText is
\* emitted as a disjunction of two case-insensitive containment filters, on
\* titolo and on descrizione, with the same text, so that a record matching
\* only in its description is selected; a searchText not supplied emits neither.
C13_SuppliedSearchTextEmitted ==
    ToolQueried(SearchTools) =>
        LET t == probe.input.searchText
        IN  IF t.t # "undefined" THEN SearchTextEmitted(t) /\ SelectsByText(t)
            ELSE NoSearchTextEmitted

\* C13 amended: a supplied searchText that is not the empty string is emitted
\* as the two containment filters with the same text and selects the records
\* matching in title or description; a searchText that is not supplied or is
\* the empty string emits neither parameter.
C13_NonEmptySearchTextEmitted ==
    ToolQueried(SearchTools) =>
        LET t == probe.input.searchText
        IN  IF t.t # "undefined" /\ t.s # "" THEN SearchTextEmitted(t) /\ SelectsByText(t)
            ELSE NoSearchTextEmitted

\* cerca_offerte sent a query for a search text that selects a record matching
\* only in its description.
C13_Witness ==
    /\ ToolQueried({"cerca_offerte"})
    /\ probe.input.searchText = Text("pesce")
    /\ \E r \in TextRecords :
           /\ ~ContainsI(r.titolo, Spell("pesce"))
           /\ ContainsI(r.descrizione, Spell("pesce"))
           /\ CmsSelectsText(SentParams, r)

\* The populate parameter of the category related to a search tool's records.
CategoryPopulate(tool) ==
    CASE tool = "cerca_eventi" -> "populate[categoria_evento]"
      [] tool = "cerca_experiences" -> "populate[categoria_cosafare]"
      [] tool = "cerca_punti_interesse" -> "populate[categoria_esplora]"
      [] tool = "cerca_strutture" -> "populate[categoria_struttura]"
      [] tool = "cerca_offerte" -> "populate[categoria_offerta]"

PopulateKeys == {CategoryPopulate(tool) : tool \in SearchTools} \cup {"populate[cover]"}

\* A query of the pure specification has been sent.
QuerySent == probe.op \in {"tool", "today"} /\ probe.stage \in {"queried", "returned"}

\* The size parameter of the sent query is n.
PageSizeIs(n) ==
    \/ Has(SentParams, "pagination[pageSize]")
           /\ SentParams["pagination[pageSize]"] = Text(ToString(n))
    \/ Has(SentParams, "pagination[limit]")
           /\ SentParams["pagination[limit]"] = Text(ToString(n))

-----------------------------------------------------------------------------
(* Properties of the CMS client within a turn.                             *)

\* The settled calls of strapiQuery.
StrapiCalls == {n \in 1..Len(exchanges) : exchanges[n].fn = "strapiQuery"}

\* C15: each call of strapiQuery issues exactly one HTTP request, a GET with
\* the bearer token; on a non-2xx response it fails with an error carrying the
\* status code and issues no further request; no request to the CMS writes.
C15_OneAuthenticatedGet ==
    /\ \A n \in 1..Len(cms) : cms[n].method = "GET" /\ cms[n].bearer
    /\ variant = "tools" => Len(cms) = Cardinality(StrapiCalls) + Cardinality(pending)
    /\ \A n \in StrapiCalls :
           (exchanges[n].resp.kind = "http" /\ ~ok(exchanges[n].resp)) =>
               exchanges[n].outcome =
                   Throw("Strapi API error: " \o ToString(exchanges[n].resp.status))

\* Two calls of strapiQuery were answered, one of them with status 500, and two
\* requests were sent in all.
C15_Witness ==
    /\ variant = "tools" /\ pc = "done"
    /\ Cardinality(StrapiCalls) = 2 /\ Len(cms) = 2
    /\ \E n \in StrapiCalls : exchanges[n].resp = HttpError(500)

-----------------------------------------------------------------------------
(* Properties of the tools' execute.                                       *)

\* The key of the list in a tool's result.
ResultListKey(tool) == IF tool = "ottieni_categorie" THEN "categorie" ELSE ListKey(tool)

\* C16: the execute of each of the six tools performs exactly one CMS query
\* per invocation, and its successful result holds the shaped record list and
\* a total count taken from the CMS's pagination metadata.
C16_OneQueryListAndTotal ==
    (probe.op = "tool" /\ probe.stage = "returned") =>
        /\ Len(probe.requests) = 1
        /\ probe.outcome.kind = "return" =>
               /\ ResultListKey(probe.tool) \in DOMAIN probe.outcome.value
               /\ Len(probe.outcome.value[ResultListKey(probe.tool)]) = Len(probe.resp.data)
               /\ "totale" \in DOMAIN probe.outcome.value
               /\ probe.outcome.value["totale"] = probe.resp.total

-----------------------------------------------------------------------------
(* Properties of the category filter.                                      *)

CategoryTools == {"cerca_experiences", "cerca_punti_interesse", "cerca_strutture"}

\* The relation a category tool filters on.
CategoryRelation(tool) ==
    CASE tool = "cerca_experiences" -> "categoria_cosafare"
      [] tool = "cerca_punti_interesse" -> "categoria_esplora"
      [] tool = "cerca_strutture" -> "categoria_struttura"

\* The containment filter on the related category's title.
CategoryFilter(tool) == "filters[" \o CategoryRelation(tool) \o "][titolo][$containsi]"

\* Filters that would match the category by its id.
CategoryIdFilters(tool) ==
    {"filters[" \o CategoryRelation(tool) \o "]" \o rest :
        rest \in {"[id][$eq]", "[id]", "[$eq]", "[documentId][$eq]"}}

\* Category titles the filter is tried on.
CategoryTitles ==
    {<<"S", "t", "r", "e", "e", "t", " ", "F", "O", "O", "D">>, <<"S", "p", "o", "r", "t">>}

\* The category filter carries the text c and selects by containment.
CategoryEmitted(c) ==
    /\ Has(SentParams, CategoryFilter(probe.tool))
    /\ SentParams[CategoryFilter(probe.tool)] = c
    /\ \A title \in CategoryTitles :
           CmsSelectsCategory(SentParams, CategoryFilter(probe.tool), title)
               <=> ContainsI(title, Spell(c.s))

NoCategoryId == \A key \in CategoryIdFilters(probe.tool) : ~Has(SentParams, key)

\* C19 as stated: in cerca_experiences, cerca_punti_interesse and
\* cerca_strutture a supplied categoria is emitted as a case-insensitive
\* containment filter on the related category's titolo, never as an id
\* equality filter; an omitted categoria emits no category parameter.
C19_SuppliedCategoriaEmitted ==
    ToolQueried(CategoryTools) =>
        LET c == probe.input.categoria
        IN  /\ NoCategoryId
            /\ IF c.t # "undefined" THEN CategoryEmitted(c)
               ELSE ~Has(SentParams, CategoryFilter(probe.tool))

\* C19 amended: a supplied categoria that is not the empty string is emitted
\* as the containment filter on the related category's titolo, never as an id
\* equality filter; a categoria that is omitted or is the empty string emits
\* no category parameter.
C19_NonEmptyCategoriaEmitted ==
    ToolQueried(CategoryTools) =>
        LET c == probe.input.categoria
        IN  /\ NoCategoryId
            /\ IF c.t # "undefined" /\ c.s # "" THEN CategoryEmitted(c)
               ELSE ~Has(SentParams, CategoryFilter(probe.tool))

\* cerca_punti_interesse sent a query whose category filter selects a category
\* by a part of its title written in another case.
C19_Witness ==
    /\ ToolQueried({"cerca_punti_interesse"})
    /\ probe.input.categoria = Text("Food")
    /\ Has(SentParams, "filters[categoria_esplora][titolo][$containsi]")
    /\ \E title \in CategoryTitles :
           CmsSelectsCategory(SentParams, CategoryFilter(probe.tool), title)

-----------------------------------------------------------------------------
(* Properties of the response's tool call list.                            *)

\* The tool calls the model made, in step order and call order within a step,
\* each with the tool's name and the arguments the model supplied.
RECURSIVE SuppliedCalls(_)
SuppliedCalls(ss) ==
    IF ss = <<>> THEN <<>>
    ELSE [i \in 1..Len(Head(ss).toolCalls) |->
             [toolName |-> Head(ss).toolCalls[i].toolName,
              args |-> Head(ss).toolCalls[i].input]]
         \o SuppliedCalls(Tail(ss))

\* C20: the successful response of the tool version lists one toolCalls entry
\* for every tool call the model made in any step, in step order and call
\* order, each with the tool's name and the arguments the model supplied.
C20_ToolCallsListed ==
    (variant = "tools" /\ pc \in {"done", "shown"} /\ thrown = "") =>
        response.toolCalls = SuppliedCalls(steps)

-----------------------------------------------------------------------------
(* Properties of a process serving several requests.                       *)

\* C17 as stated: a turn's input to the model depends only on the message
\* history of the request: two requests with the same history, served by the
\* same process at different times or after different earlier requests, send
\* the same system prompt and messages to the model.
C17_SameHistorySameInput ==
    \A i, j \in 1..Len(process.served) :
        process.served[i].messages = process.served[j].messages =>
            process.served[i].input = process.served[j].input

\* C17 amended: in the tool and plain versions two requests with the same
\* history send the same system prompt and messages, whenever and after
\* whatever they are served; in the today version they do so when served on
\* the same day with the same answer of the CMS.  The messages sent are the
\* request's in every version.
C17_InputFromHistoryDayAndCms ==
    \A i, j \in 1..Len(process.served) :
        LET a == process.served[i]
            b == process.served[j]
        IN  /\ a.input.messages = a.messages
            /\ (a.messages = b.messages /\ variant \in {"tools", "plain"}) =>
                   a.input = b.input
            /\ (a.messages = b.messages /\ variant = "today"
                    /\ a.today = b.today /\ a.resp = b.resp) =>
                   a.input = b.input

\* The tool version served the same history on two different days, after
\* different earlier requests, and sent the same input to the model.
C17_Witness ==
    /\ variant = "tools"
    /\ Len(process.served) = 3
    /\ process.served[1].messages # process.served[2].messages
    /\ process.served[2].messages = process.served[3].messages
    /\ process.served[2].today < process.served[3].today
    /\ process.served[2].input = process.served[3].input

-----------------------------------------------------------------------------
(* Properties of the Chat component.                                       *)

IsPrefix(p, q) == Len(p) <= Len(q) /\ \A i \in 1..Len(p) : p[i] = q[i]

\* Every payload posted so far is the messages state it was built from with
\* the new user message appended as its last element, and it extends the
\* payload posted before it.
PayloadComplete ==
    \A k \in 1..Len(browser.payloads) :
        LET sent == browser.payloads[k]
            last == sent.body[Len(sent.body)]
        IN  /\ Len(sent.body) = Len(sent.prior) + 1
            /\ IsPrefix(sent.prior, sent.body)
            /\ last.role = "user"
            /\ last.content.typed # <<>>
            /\ k > 1 => /\ IsPrefix(browser.payloads[k - 1].body, sent.body)
                        /\ Len(browser.payloads[k - 1].body) < Len(sent.body)

\* A turn is under way: its assistant message is still being filled in.
TurnInProgress == browser.pendingMessage # Null \/ browser.isStreaming

\* A step keeps every message but the one of the turn under way: none is
\* removed, moved or rewritten.
MessagesKept ==
    /\ Len(browser'.messages) >= Len(browser.messages)
    /\ \A i \in 1..Len(browser.messages) :
           (i < Len(browser.messages) \/ ~TurnInProgress) =>
               browser'.messages[i] = browser.messages[i]

\* C18: on every accepted submit the client sends the complete prior message
\* sequence with the new user message appended as the last element (without
\* the empty assistant placeholder), and over any sequence of turns the
\* messages of earlier completed turns are never removed, reordered or
\* rewritten.
C18_FullHistoryResent == []PayloadComplete /\ [][MessagesKept]_vars

\* A second message was submitted after a completed turn: its payload holds
\* the first turn's two messages and the new user message.
C18_Witness ==
    /\ Len(browser.payloads) = 2
    /\ Len(browser.payloads[2].body) = 3
    /\ browser.payloads[2].body[2].role = "assistant"
    /\ browser.payloads[2].body[3].role = "user"
    /\ browser.kind = "tools"

-----------------------------------------------------------------------------
(* Markup in descriptions.                                                 *)

\* s holds a complete tag: a "<" with a ">" somewhere after it.
HasCompleteTag(s) ==
    \E i \in 1..Len(s) : \E j \in (i + 1)..Len(s) : s[i] = "<" /\ s[j] = ">"

\* The characters of s outside every tag, blanks at both ends dropped.
PlainText(d) == trim(StripTags(d.chars))

\* A description has been shaped by the given shaper.
ShapedBy(shaper) ==
    /\ probe.op = "shape" /\ probe.stage \in {"once", "twice"}
    /\ probe.shaper = shaper
    /\ probe.d.t = "text"

\* formatEventsForContext: the emitted description holds no complete tag, and
\* the cap counts the characters outside the tags only (a description whose
\* plain text is shorter than the cap is emitted whole, without its tags).
ContextDescriptionStripped ==
    ShapedBy("context") =>
        /\ ~HasCompleteTag(probe.out)
        /\ Len(PlainText(probe.d)) < ContextBudget => probe.out = PlainText(probe.d)
        /\ Len(PlainText(probe.d)) >= ContextBudget =>
               probe.out = SubSeq(PlainText(probe.d), 1, ContextBudget) \o Ellipsis

\* The search tools: the shaped description holds no complete tag.
ToolDescriptionStripped == ShapedBy("tool") => ~HasCompleteTag(probe.out)

\* C21: formatEventsForContext removes markup tags from a description and
\* trims it before it applies the 200-character cap, so the cap counts only
\* the characters outside the tags and the emitted description holds no
\* complete tag; the descriptions shaped by the search tools hold no markup
\* tags either.
C21_DescriptionsCarryNoMarkup == ContextDescriptionStripped /\ ToolDescriptionStripped

-----------------------------------------------------------------------------
(* Properties of the Chat component over several turns.                    *)

FetcherChat == browser.kind # "streaming" /\ browser.at # "error"

\* The assistant message the effect makes of a response body.
Displayed(data) ==
    AssistantSays(IF data.text # "" THEN data.text ELSE ClientFallback(browser.kind))

\* The assistant message of turn n of a version with a fetcher: every turn
\* adds a user message and its placeholder.
TurnMessage(n) == browser.messages[2 * n]

\* C22: in the chat components with a fetcher, after any sequence of submits
\* and responses the assistant message that fills the placeholder of turn n
\* carries the text of the response to turn n's own request, never that of an
\* earlier turn, and once the response to a submit has arrived and the
\* component has settled it is displayed.
C22_PlaceholderFilledByOwnResponse ==
    FetcherChat =>
        \A n \in 1..Len(browser.payloads) :
            /\ TurnMessage(n) # Placeholder =>
                   /\ Len(browser.replies) >= n
                   /\ TurnMessage(n) = Displayed(browser.replies[n])
            /\ (Len(browser.replies) >= n /\ Settled) =>
                   TurnMessage(n) = Displayed(browser.replies[n])

\* A request of the component is under way: isLoading, isStreaming.
InFlight == browser.fetcherState # "idle" \/ browser.isStreaming

\* The step posts a request.
SubmitAccepted == Len(browser'.payloads) > Len(browser.payloads)

\* The user messages shown.
UserMessages(messages) == {i \in 1..Len(messages) : messages[i].role = "user"}

\* A step that posts a request starts from a non-blank input with nothing in
\* flight, posts one request and puts it in flight; a step from a blank input
\* or with a request in flight posts nothing and shows no new user message.
SubmitGuarded ==
    /\ SubmitAccepted =>
           /\ trim(browser.input) # <<>>
           /\ ~InFlight
           /\ Len(browser'.payloads) = Len(browser.payloads) + 1
           /\ InFlight'
    /\ (trim(browser.input) = <<>> \/ InFlight) =>
           /\ browser'.payloads = browser.payloads
           /\ UserMessages(browser'.messages) = UserMessages(browser.messages)

\* Requests posted and not yet answered, in a version with a fetcher.
Unanswered == Len(browser.payloads) - Len(browser.replies)

\* At most one turn is in flight: with a fetcher at most one posted request is
\* unanswered, and none when the fetcher is idle; in the streaming version a
\* request is awaited or read only while isStreaming is set.
OneTurnInFlight ==
    /\ (browser.kind # "streaming" /\ browser.at # "error") =>
           /\ Unanswered \in {0, 1}
           /\ Unanswered = 1 <=> browser.fetcherState = "submitting"
    /\ browser.kind = "streaming" =>
           (browser.at \in {"awaitFetch", "reading"} <=> browser.isStreaming)

\* C23: in every chat component a submit is accepted only when the trimmed
\* input is not empty and no request is in flight (isLoading or isStreaming
\* false); a rejected submit changes no state and sends nothing, so at most
\* one turn of a browser session is in flight at any time.
C23_SubmitOnlyWhenIdle == [][SubmitGuarded]_vars /\ []OneTurnInFlight

\* The streaming version has posted a second request, after the first one had
\* come to its end, from an input with blanks around the text typed.
C23_Witness ==
    /\ Len(browser.payloads) = 2
    /\ InFlight
    /\ browser.kind = "streaming"
    /\ browser.payloads[2].body[Len(browser.payloads[2].body)].content.typed
           = <<"o", "g", "g", "i">>

\* The roles alternate, a user message first.
Alternates(messages) ==
    \A i \in 1..Len(messages) :
        messages[i].role = (IF i % 2 = 1 THEN "user" ELSE "assistant")

\* C24: after any sequence of submits, responses and failures in any chat
\* component the message list alternates strictly user, assistant, user,
\* assistant, starting with a user message; so a turn of the streaming version
\* that fails, before or after its first chunk, leaves exactly one assistant
\* message for the turn.
C24_MessagesAlternate == Alternates(browser.messages)

-----------------------------------------------------------------------------
(* Properties of the streaming version.                                    *)

\* The chunks of a body, put together.
RECURSIVE Concat(_)
Concat(ss) == IF ss = <<>> THEN <<>> ELSE Head(ss) \o Concat(Tail(ss))

\* The last message shown.
LastMessage == browser.messages[Len(browser.messages)]

\* The response stream of the turn has been read to its end.
StreamEnded ==
    /\ browser.kind = "streaming"
    /\ browser.at = "idle"
    /\ browser.fetched = "ok"
    /\ "chars" \in DOMAIN LastMessage.content

\* C25: in the streaming version, once the response stream has ended, the
\* content of the last assistant message is all the text of the body the
\* action streamed (the plain text of toTextStreamResponse), in the order it
\* arrived, however the body was split into chunks.
C25_StreamedTextShown ==
    StreamEnded => LastMessage.content.chars = Concat(browser.chunks)

\* While isStreaming is set no request is posted.
NoPostWhileStreaming == browser.isStreaming => browser'.payloads = browser.payloads

\* C26: in the streaming version every accepted submit is followed in the end
\* by isStreaming = false (the input is enabled again), whether the fetch
\* returns a response that is not ok, has no readable body, throws while the
\* body is read or ends normally, provided the fetch and the stream end; and
\* while isStreaming is true no second request is sent.
C26_StreamingFlagCleared ==
    /\ browser.isStreaming ~> ~browser.isStreaming
    /\ [][NoPostWhileStreaming]_vars

\* A turn whose stream broke after a chunk was read has ended with the flag
\* cleared.
C26_Witness ==
    /\ browser.kind = "streaming"
    /\ browser.fetched = "dropped"
    /\ browser.chunks # <<>>
    /\ Len(browser.payloads) >= 1
    /\ ~browser.isStreaming

-----------------------------------------------------------------------------
(* Properties of the date filters of cerca_offerte and fetchTodayEvents.   *)

\* The filter keys on the validity period of an offer.
DisponibileFilters ==
    {"filters[disponibile" \o end \o "][$" \o op \o "]" :
        end \in {"Inizio", "Fine"}, op \in {"gte", "lte", "gt", "lt", "eq"}}

\* The bounds a cerca_offerte query carries are those of the arguments given:
\* disponibileInizio <= s for a dataInizio s, disponibileFine >= e for a
\* dataFine e, and no other filter on the period.
OfferteBoundsEmitted ==
    LET sent == SentParams
        s == probe.input.dataInizio
        e == probe.input.dataFine
    IN  /\ {key \in DisponibileFilters : Has(sent, key)} =
               {"filters[disponibileInizio][$lte]" : x \in {s} \ {Undefined}}
                   \cup {"filters[disponibileFine][$gte]" : x \in {e} \ {Undefined}}
        /\ s # Undefined => sent["filters[disponibileInizio][$lte]"] = s
        /\ e # Undefined => sent["filters[disponibileFine][$gte]"] = e

\* The offer is active and its validity period holds the part of the window
\* that was given.
HoldsWindow(o, s, e) ==
    /\ o.attiva
    /\ s # Undefined => o.disponibileInizio <= s.day
    /\ e # Undefined => o.disponibileFine >= e.day

\* C27: for cerca_offerte with dataInizio = s and dataFine = e the emitted
\* filter selects exactly the active offers whose validity period contains
\* the whole window (disponibileInizio <= s and disponibileFine >= e); each
\* bound is emitted only when its argument is supplied.
C27_OffersHoldingWindow ==
    /\ (probe.op = "offerte" /\ probe.stage \in {"built", "selected"}) =>
           OfferteBoundsEmitted
    /\ (probe.op = "offerte" /\ probe.stage = "selected") =>
           (probe.selected <=>
                HoldsWindow(probe.offerta, probe.input.dataInizio, probe.input.dataFine))

\* An active offer that overlaps the window without holding it was left out.
C27_Witness ==
    /\ probe.op = "offerte" /\ probe.stage = "selected"
    /\ probe.input.dataInizio = IsoDate(1) /\ probe.input.dataFine = IsoDate(3)
    /\ probe.offerta = Offerta(2, 4, TRUE)
    /\ ~probe.selected

\* The filter keys on the dates of an event.
DateFilters ==
    {"filters[data" \o end \o "][$" \o op \o "]" :
        end \in {"Inizio", "Fine"}, op \in {"gte", "lte", "gt", "lt", "eq"}}

\* The request of fetchTodayEvents carries the day of the request in its two
\* date filters, no other date filter, and asks for 50 records.
TodayRequestFormed ==
    LET sent == SentParams
    IN  /\ {key \in DateFilters : Has(sent, key)} =
               {"filters[dataInizio][$lte]", "filters[dataFine][$gte]"}
        /\ sent["filters[dataInizio][$lte]"] = IsoDate(probe.day)
        /\ sent["filters[dataFine][$gte]"] = IsoDate(probe.day)
        /\ sent["pagination[limit]"] = Text("50")
        /\ ~Has(sent, "pagination[pageSize]")

\* C28: fetchTodayEvents selects exactly the events for which today's date
\* lies between dataInizio and dataFine, both included (dataInizio <= today
\* and dataFine >= today), that is the events overlapping the one-day window
\* [today, today]; today is the day of the request, and at most 50 records
\* are asked for.
C28_TodaySelectsCurrentEvents ==
    /\ (probe.op = "today" /\ probe.stage \in {"queried", "selected"}) =>
           TodayRequestFormed
    /\ (probe.op = "today" /\ probe.stage = "selected") =>
           /\ probe.selected <=>
                  (probe.event.dataInizio <= probe.day /\ probe.event.dataFine >= probe.day)
           /\ probe.selected <=> Overlaps(probe.event, probe.day, probe.day)

\* A process loaded on day 1 served a request on day 3 and selected an event
\* that lasts from day 2 to day 4.
C28_Witness ==
    /\ probe.op = "today" /\ probe.stage = "selected"
    /\ probe.loaded = 1 /\ probe.day = 3
    /\ probe.event.dataInizio = 2 /\ probe.event.dataFine = 4
    /\ probe.selected

-----------------------------------------------------------------------------
(* Properties of ottieni_categorie.                                        *)

\* A call of ottieni_categorie has been dealt with.
CategorieCalled ==
    /\ probe.op = "tool" /\ probe.tool = "ottieni_categorie"
    /\ probe.stage \in {"queried", "returned", "rejected"}

\* The tipo of the call is one of the six of the enum.
TipoAllowed == probe.input.tipo.t = "string" /\ probe.input.tipo.s \in Tipi

\* Each allowed tipo has an endpoint of its own, and a call with an allowed
\* tipo sends one request, to that endpoint.
TipoQueriesOwnEndpoint ==
    /\ \A t, u \in Tipi : t # u => endpoints[t] # endpoints[u]
    /\ (CategorieCalled /\ TipoAllowed) =>
           /\ Len(probe.requests) = 1
           /\ probe.requests[1].endpoint = endpoints[probe.input.tipo.s]
           /\ \A t \in Tipi \ {probe.input.tipo.s} :
                  probe.requests[1].endpoint # endpoints[t]

\* The value execute returns when it has no endpoint for the tipo.
TipoNonValido == Return("error" :> "Tipo non valido")

\* C29 as stated: ottieni_categorie maps each of the six allowed tipo values
\* to its own distinct CMS endpoint and queries exactly that endpoint; for a
\* tipo outside the six it returns the error value {error: "Tipo non valido"}
\* without issuing any CMS request.
C29_TipoEndpointOrErrorValue ==
    /\ TipoQueriesOwnEndpoint
    /\ (CategorieCalled /\ ~TipoAllowed) =>
           /\ probe.requests = <<>>
           /\ probe.stage = "returned"
           /\ probe.outcome = TipoNonValido

\* C29 amended: ottieni_categorie maps each of the six allowed tipo values to
\* its own distinct CMS endpoint and queries exactly that endpoint; for a tipo
\* outside the six no CMS request is issued: the enum of the input schema
\* rejects the call before execute runs, the call's result is the validation
\* error, and execute's {error: "Tipo non valido"} is never returned.
C29_TipoEndpointOrRejected ==
    /\ TipoQueriesOwnEndpoint
    /\ (CategorieCalled /\ ~TipoAllowed) =>
           /\ probe.requests = <<>>
           /\ probe.stage = "rejected"
           /\ probe.output = InvalidOutput(ToolCall("ottieni_categorie", probe.input))
    /\ (CategorieCalled /\ probe.stage = "returned") => probe.outcome # TipoNonValido

\* A call with the tipo "hotel" was rejected.
C29_Witness ==
    /\ CategorieCalled
    /\ probe.input.tipo = Text("hotel")
    /\ probe.stage = "rejected"
    /\ probe.output.type = "tool-error"

-----------------------------------------------------------------------------
(* Properties of what the client shows for a turn.                         *)

\* The action answered with success.
TurnSucceeded == response.status = 200 /\ thrown = ""

\* The texts that tell the user of an error.
ErrorTexts == {FallbackText} \cup {ClientFallback(v) : v \in Variants}

\* C30: when a turn succeeds with an empty final text (as when the turn ends
\* on a step that requested tools and gave no text), the client with a fetcher
\* shows the turn's assistant message with the text the server returned; the
\* error fallback is shown only for turns the server reported as failed.
C30_EmptyTextShownAsReturned ==
    pc = "shown" =>
        /\ TurnSucceeded => chat = response.text
        /\ chat \in ErrorTexts => ~TurnSucceeded

====
